---- MODULE Spec2Model ----
(***************************************************************************)
(* A model of euporie's application shell and layout widgets:              *)
(*   - TuiApp.exit, the chain of tab closes        (src/euporie/app/tui.py) *)
(*   - TuiApp.dialog, the stack of modal dialogs   (src/euporie/app/tui.py) *)
(*   - StackedSplit / TabbedSplit / AccordionSplit (widgets/layout.py)      *)
(*   - TabControl, the tab bar and its mouse handler (widgets/layout.py)    *)
(*   - CellOutput / CellOutputArea and the MIME rank (widgets/cell_outputs.py) *)
(*   - TuiApp.tab_op                               (src/euporie/app/tui.py) *)
(*   - PreviewApp.load_output                  (src/euporie/preview/app.py) *)
(*   - ReferencedSplit                              (widgets/layout.py)     *)
(* Each component has its own specification (SpecExit, SpecDialog,          *)
(* SpecSplit, SpecTab, SpecOutput, SpecTabOp, SpecPreview, SpecRef); the   *)
(* variables                                                                *)
(* of the other components stay at their initial values. SpecBar is a tab   *)
(* bar whose owner changes its tabs, spacing and closeable flag.            *)
(***************************************************************************)
EXTENDS Integers, Sequences, FiniteSets, TLC

VARIABLES
    app,        \* TuiApp: tabs, pending tab closes, exit chains, event log
    dirty,      \* Tab: whether closing the tab asks the user first
    floats,     \* TuiApp.root_container.floats: the dialogs shown, front first
    dialogs,    \* every dialog created: its buttons' callbacks, the focus it
                \* captured, and the control that had the focus before it opened
    focus,      \* layout.current_control
    dlog,       \* the dialogs opened and closed so far, in order
    cbRuns,     \* how many button callbacks have run
    split,      \* a StackedSplit: kind, _children, _titles, _active, and what
                \* the last operation on it did
    ctl,        \* a TabControl: tabs, active, spacing, closeable,
                \* mouse_handlers, _content_cache
    mouse,      \* the last mouse event given to the TabControl (its type and
                \* row), the callbacks it invoked in order, what it returned
                \* or raised
    cells,      \* a CellOutputArea, the CellOutput objects made so far, how
                \* many renderers were constructed, and what the last
                \* operation did
    shell,      \* TuiApp.tab_op: the focused tab, the attributes of the tabs,
                \* and the calls the last tab_op made
    preview,    \* PreviewApp.load_output: the configuration, how open()
                \* ends, and the output chosen
    refsplit    \* a ReferencedSplit: the list it was given (_children) and
                \* the children of the container it wraps

exitVars == <<app, dirty>>

dialogVars == <<floats, dialogs, focus, dlog, cbRuns>>

widgetVars == <<split, ctl, mouse>>

restVars == <<cells, shell, preview, refsplit>>

vars == <<app, dirty, floats, dialogs, focus, dlog, cbRuns, split, ctl, mouse,
          cells, shell, preview, refsplit>>

\* The Python value None, where a string, an index or a callback is expected.
None == "None"

NoIndex == -9

NoCb == [kind |-> "None", arg |-> 0]

\* No exception raised by the last handler.
NoError == "none"

Max(a, b) == IF a >= b THEN a ELSE b

Min(a, b) == IF a <= b THEN a ELSE b

Range(s) == {s[i] : i \in 1..Len(s)}

\* list.remove(x): the list without the first occurrence of x.
RECURSIVE ListRemove(_, _)
ListRemove(s, x) ==
    IF s = <<>> THEN <<>>
    ELSE IF Head(s) = x THEN Tail(s)
    ELSE <<Head(s)>> \o ListRemove(Tail(s), x)

(***************************************************************************)
(* TuiApp.exit                                                             *)
(***************************************************************************)

\* How many tab objects exist.
NumTabs == 3

\* How many times the user may invoke exit.
MaxExitCalls == 2

TabIds == 1..NumTabs

\* The lists of distinct tabs an application can have open: tab objects have
\* no order of their own, so the tab at position i is called i.
TabLists == {[i \in 1..n |-> i] : n \in 0..NumTabs}

\* A chain callback: link 0 is final_cb; link j >= 1 is the `inner` built by
\* create_cb(close_tab = snapshot[j], cleanup_tab = snapshot[j + 1], cb = link j - 1),
\* where snapshot is self.tabs as zip() read it when exit was called.
Callback(e, j) == [chain |-> e, link |-> j]

Event(kind, t, e) == [ev |-> kind, tab |-> t, chain |-> e]

Raise(st, error) == [st EXCEPT !.err = error]

\* App.cleanup_closed_tab(tab): the tab leaves self.tabs (list.remove raises
\* ValueError when the tab is not in the list).
CleanupClosedTab(st, t, e) ==
    IF t \in Range(st.tabs)
    THEN [st EXCEPT !.tabs = ListRemove(st.tabs, t),
                    !.log = Append(@, Event("cleanup", t, e))]
    ELSE Raise(st, "ValueError")

\* super().exit: the application really exits.
ReallyClose(st, e) ==
    [st EXCEPT !.exits = @ + 1, !.log = Append(@, Event("exit", 0, e))]

\* A slip in final_cb: the first tab is not cleaned up before the exit.
FinalCbNoCleanup(st, e) ==
    IF st.tabs = <<>> THEN Raise(st, "IndexError") ELSE ReallyClose(st, e)

\* A slip in final_cb: with no tab left it exits all the same.
FinalCbExitsAnyway(st, e) ==
    IF st.tabs = <<>>
    THEN ReallyClose(st, e)
    ELSE LET st1 == CleanupClosedTab(st, st.tabs[1], e)
         IN  IF st1.err # NoError THEN st1 ELSE ReallyClose(st1, e)

\* final_cb: clean up the first tab still open, then really exit.
FinalCb(st, e) ==
    IF st.tabs = <<>>
    THEN Raise(st, "IndexError")
    ELSE LET st1 == CleanupClosedTab(st, st.tabs[1], e)
         IN  IF st1.err # NoError THEN st1 ELSE ReallyClose(st1, e)

RECURSIVE TabClose(_, _, _)
RECURSIVE RunCallback(_, _)

\* create_cb(...).inner: clean up the tab just closed, ask the next one to close.
InnerCb(st, e, j) ==
    LET snapshot == st.chains[e]
        st1 == CleanupClosedTab(st, snapshot[j + 1], e)
    IN  IF st1.err # NoError THEN st1
        ELSE TabClose(st1, snapshot[j], Callback(e, j - 1))

RunCallback(st, cb) ==
    IF cb.link = 0 THEN FinalCb(st, cb.chain) ELSE InnerCb(st, cb.chain, cb.link)

\* Tab.close(cb): a tab that has nothing to ask closes at once and calls cb; a
\* dirty tab asks the user, and cb waits for the answer.
TabClose(st, t, cb) ==
    LET st1 == [st EXCEPT !.log = Append(@, Event("request", t, cb.chain))]
    IN  IF dirty[t]
        THEN [st1 EXCEPT !.pending = @ \cup {[tab |-> t, cb |-> cb]}]
        ELSE RunCallback(
                [st1 EXCEPT !.log = Append(@, Event("complete", t, cb.chain))], cb)

\* A slip in exit: the chain starts at the first tab instead of the last one.
ExitAppFromFirst(st) ==
    IF st.tabs # <<>>
    THEN LET e == Len(st.chains) + 1
             n == Len(st.tabs)
             st1 == [st EXCEPT !.chains = Append(@, st.tabs)]
         IN  TabClose(st1, st.tabs[1], Callback(e, n - 1))
    ELSE ReallyClose(st, 0)

\* TuiApp.exit
ExitApp(st) ==
    IF st.tabs # <<>>
    THEN LET e == Len(st.chains) + 1
             n == Len(st.tabs)
             st1 == [st EXCEPT !.chains = Append(@, st.tabs)]
         IN  TabClose(st1, st.tabs[n], Callback(e, n - 1))
    ELSE ReallyClose(st, 0)

InitExit ==
    /\ dirty \in [TabIds -> BOOLEAN]
    /\ \E s \in TabLists :
        app = [tabs |-> s, pending |-> {}, chains |-> <<>>, log |-> <<>>,
               calls |-> 0, exits |-> 0, err |-> NoError]

\* The user invokes exit (c-q, or the Exit menu item).
Exit ==
    /\ app.calls < MaxExitCalls
    /\ app' = ExitApp([app EXCEPT !.calls = @ + 1, !.err = NoError])
    /\ UNCHANGED <<dirty, dialogVars, widgetVars, restVars>>

\* The user confirms a pending close: the tab closes and calls its callback.
ConfirmClose ==
    \E r \in app.pending :
        /\ app' = RunCallback(
                [app EXCEPT !.pending = @ \ {r}, !.err = NoError,
                            !.log = Append(@, Event("complete", r.tab, r.cb.chain))],
                r.cb)
        /\ UNCHANGED <<dirty, dialogVars, widgetVars, restVars>>

\* The user cancels a pending close: its callback is never invoked.
CancelClose ==
    \E r \in app.pending :
        /\ app' = [app EXCEPT !.pending = @ \ {r}, !.err = NoError,
                              !.log = Append(@, Event("cancel", r.tab, r.cb.chain))]
        /\ UNCHANGED <<dirty, dialogVars, widgetVars, restVars>>

(***************************************************************************)
(* TuiApp.dialog                                                           *)
(***************************************************************************)

\* How many dialogs may be created.
MaxDialogs == 2

\* How many controls the application's own layout holds.
NumAppControls == 2

\* A control: owner 0 is the application's layout, owner d the dialog d;
\* of a dialog, control 0 is the body's and control k >= 1 the k-th button's.
Control(owner, k) == [owner |-> owner, idx |-> k]

AppControls == {Control(0, k) : k \in 1..NumAppControls}

\* A button's callback: None, or ask_file's _open_cb, which opens the file
\* or, when the file is not found, asks again.
ButtonCallbacks == {None, "_open_cb"}

DialogControls(d) == {Control(d, k) : k \in 0..Len(dialogs[d].buttons)}

\* layout.find_all_controls(): the controls of the layout and of the floats in fl.
FindAllControls(fl) == AppControls \cup UNION {DialogControls(d) : d \in Range(fl)}

\* A dialog() state: the part of the application a dialog handler works on.
DialogState == [floats |-> floats, dialogs |-> dialogs, focus |-> focus,
                dlog |-> dlog, cbRuns |-> cbRuns]

\* What a dialog's button handler did, kept with the dialog: the button
\* clicked and the steps taken, each with what it left or saw: the removal
\* the floats, the restoration the focus, the callback both.
NoClick == [button |-> 0, steps |-> <<>>]

\* A slip in dialog(): the focus is captured after the dialog took it.
CapturedFocusLate(st, toFocus) ==
    IF toFocus = None THEN Control(Len(st.dialogs) + 1, 1)
    ELSE Control(Len(st.dialogs) + 1, 0)

\* focused = self.layout.current_control
CapturedFocus(st, toFocus) == st.focus

\* A slip in dialog(): the new dialog goes behind the ones shown.
OpenDialogBehind(st, buttons, toFocus) ==
    LET d == Len(st.dialogs) + 1
    IN  [st EXCEPT
            !.dialogs = Append(@, [buttons |-> buttons, focused |-> st.focus,
                                   before |-> st.focus, click |-> NoClick]),
            !.floats = @ \o <<d>>,
            !.focus = IF toFocus = None THEN Control(d, 1) ELSE Control(d, 0),
            !.dlog = Append(@, [ev |-> "open", dlg |-> d])]

\* TuiApp.dialog(title, body, buttons, to_focus)
OpenDialog(st, buttons, toFocus) ==
    LET d == Len(st.dialogs) + 1
        focused == CapturedFocus(st, toFocus)
    IN  [st EXCEPT
            !.dialogs = Append(@, [buttons |-> buttons, focused |-> focused,
                                   before |-> st.focus, click |-> NoClick]),
            !.floats = <<d>> \o @,
            !.focus = IF toFocus = None THEN Control(d, 1) ELSE Control(d, 0),
            !.dlog = Append(@, [ev |-> "open", dlg |-> d])]

\* ask_file: a dialog with an entry field, focused, and OK / Cancel buttons.
AskFile(st) == OpenDialog(st, <<"_open_cb", None>>, "filepath")

\* help_keys, help_about, _handle_exception: a dialog with an OK button.
InfoDialog(st) == OpenDialog(st, <<None>>, None)

HandlerStep(what, seen) == [step |-> what, seen |-> seen]

Note(st, d, what, seen) ==
    [st EXCEPT !.dialogs[d].click.steps = Append(@, HandlerStep(what, seen))]

\* A slip in the handler: the focus is given back without looking whether
\* the control is still in the layout.
RestoreFocusUnchecked(st, d) ==
    Note([st EXCEPT !.focus = st.dialogs[d].focused], d, "focus", st.dialogs[d].focused)

\* if focused in self.layout.find_all_controls(): self.layout.focus(focused)
RestoreFocus(st, d) ==
    LET focused == st.dialogs[d].focused
    IN  IF focused \in
             (AppControls \cup
              UNION {{Control(x, i) : i \in 0..Len(st.dialogs[x].buttons)} :
                         x \in Range(st.floats)})
        THEN Note([st EXCEPT !.focus = focused], d, "focus", focused)
        ELSE Note(st, d, "no_focus", st.focus)

\* A slip in the handler: the button's callback is not called.
RunButtonCallbackNever(st, d, cb, found) == st

\* if callable(cb): cb(); the callback sees the application as the steps
\* before left it. found tells whether _open_cb finds the file.
RunButtonCallback(st, d, cb, found) ==
    IF cb = None THEN st
    ELSE LET st1 == Note([st EXCEPT !.cbRuns = @ + 1], d, "cb",
                         [floats |-> st.floats, focus |-> st.focus])
         IN  IF found THEN st1 ELSE AskFile(st1)

\* _make_handler(cb).inner of button k of dialog d
ButtonHandler(st, d, k, found) ==
    LET cb == st.dialogs[d].buttons[k]
        st1 == Note([st EXCEPT !.floats = ListRemove(@, d),
                               !.dlog = Append(@, [ev |-> "close", dlg |-> d]),
                               !.dialogs[d].click.button = k],
                    d, "remove", ListRemove(st.floats, d))
    IN  RunButtonCallback(RestoreFocus(st1, d), d, cb, found)

SetDialogState(st) ==
    /\ floats' = st.floats
    /\ dialogs' = st.dialogs
    /\ focus' = st.focus
    /\ dlog' = st.dlog
    /\ cbRuns' = st.cbRuns

InitDialog ==
    /\ floats = <<>>
    /\ dialogs = <<>>
    /\ focus \in AppControls
    /\ dlog = <<>>
    /\ cbRuns = 0

\* The application with no dialog activity.
IdleDialog == InitDialog /\ focus = Control(0, 1)

\* The application with no tab open.
IdleExit ==
    /\ dirty = [t \in TabIds |-> FALSE]
    /\ app = [tabs |-> <<>>, pending |-> {}, chains |-> <<>>, log |-> <<>>,
              calls |-> 0, exits |-> 0, err |-> NoError]

(***************************************************************************)
(* TabControl                                                              *)
(***************************************************************************)

\* The widest paint of a tab bar.
MaxWidth == 9

\* SimpleCache(maxsize=50) of TabControl._content_cache
ContentCacheSize == 50

\* seq[i] as Python indexes a list or tuple: negative indices count from the
\* end; "IndexError" when i is out of range.
PyInRange(seq, i) == -Len(seq) <= i /\ i < Len(seq)

PyGet(seq, i) == IF i >= 0 THEN seq[i + 1] ELSE seq[Len(seq) + i + 1]

\* A callback object: what calling it does.
\*   set_active i : partial(setattr, split, "active", i) of TabbedSplit.load_tabs
\*   activate j, deactivate j, close j : the callbacks of tab j of a tab bar
\*       whose owner keeps the bar's active index
Cb(kind, arg) == [kind |-> kind, arg |-> arg]

\* Tab(title, on_activate, on_deactivate, on_close); a title is its glyph width.
Tab(title, onActivate, onDeactivate, onClose) ==
    [title |-> title, on_activate |-> onActivate,
     on_deactivate |-> onDeactivate, on_close |-> onClose]

\* One glyph of a rendered line and its style.
Cell(glyph, style) == [g |-> glyph, s |-> style]

Repeat(x, n) == [k \in 1..Max(n, 0) |-> x]

\* dict[key] = value
DictSet(d, key, value) ==
    [x \in DOMAIN d \cup {key} |-> IF x = key THEN value ELSE d[x]]

\* mouse_handlers[c] = cb for the n columns from i on
RECURSIVE DictSetRun(_, _, _, _)
DictSetRun(d, i, n, value) ==
    IF n <= 0 THEN d ELSE DictSetRun(DictSet(d, i, value), i + 1, n - 1, value)

\* A slip in render(): the column of the close glyph gets the activate
\* callback like its neighbours.
CloseHandlerActivates(tab) == tab.on_activate

\* self.mouse_handlers[i] = tab.on_close, for the column of the close glyph
CloseHandler(tab) == tab.on_close

\* The body of render()'s loop for the tabs from j on; r holds i, top_line,
\* tab_line and mouse_handlers.
RECURSIVE RenderTabs(_, _, _)
RenderTabs(c, j, r) ==
    IF j > Len(c.tabs) THEN r
    ELSE
    LET tab == c.tabs[j]
        style == IF c.active = j - 1 THEN "active" ELSE "inactive"
        w == tab.title
        \* left edge and title
        h1 == DictSetRun(r.handlers, r.i, 1 + w, tab.on_activate)
        i1 == r.i + 1 + w
        \* close button
        h2 == IF c.closeable
              THEN DictSet(DictSet(h1, i1, tab.on_activate), i1 + 1, CloseHandler(tab))
              ELSE h1
        i2 == IF c.closeable THEN i1 + 2 ELSE i1
        \* right edge
        h3 == DictSet(h2, i2, tab.on_activate)
        i3 == i2 + 1
        top == r.top \o Repeat(Cell("top", style), w + 2)
                     \o (IF c.closeable THEN Repeat(Cell("top", style), 2) ELSE <<>>)
                     \o Repeat(Cell("space", ""), c.spacing)
        line == r.line \o <<Cell("left", style)>>
                       \o Repeat(Cell("title", style), w)
                       \o (IF c.closeable
                           THEN <<Cell("space", ""), Cell("close", style)>> ELSE <<>>)
                       \o <<Cell("right", style)>>
                       \o Repeat(Cell("bottom", ""), c.spacing)
    IN  RenderTabs(c, j + 1,
            [i |-> i3 + c.spacing, top |-> top, line |-> line, handlers |-> h3])

\* TabControl.render(width): the two lines, and mouse_handlers as it leaves it.
Render(c, width) ==
    LET r0 == [i |-> c.spacing,
               top |-> Repeat(Cell("space", ""), c.spacing),
               line |-> Repeat(Cell("bottom", ""), c.spacing),
               handlers |-> c.mouse_handlers]
        r == RenderTabs(c, 1, r0)
    IN  [top |-> r.top,
         line |-> r.line \o Repeat(Cell("bottom", ""), width - Len(r.line)),
         handlers |-> r.handlers]

\* key = (hash(self.tabs), width, self.closeable, self.active)
ContentKey(c, width) ==
    [tabs |-> c.tabs, width |-> width, closeable |-> c.closeable, active |-> c.active]

CacheKeys(c) == {c.cache[k].key : k \in 1..Len(c.cache)}

\* TabControl.create_content(width, height): the control after the paint.
CreateContent(c, width) ==
    IF ContentKey(c, width) \in CacheKeys(c) THEN c
    ELSE LET r == Render(c, width)
             entry == [key |-> ContentKey(c, width),
                       content |-> [top |-> r.top, line |-> r.line]]
             added == Append(c.cache, entry)
         IN  [c EXCEPT !.mouse_handlers = r.handlers,
                       !.cache = IF Len(added) > ContentCacheSize
                                 THEN Tail(added) ELSE added]

\* What create_content(width, height) returns: the two lines painted.
PaintedContent(c, width) ==
    IF ContentKey(c, width) \in CacheKeys(c)
    THEN LET k == CHOOSE k \in 1..Len(c.cache) : c.cache[k].key = ContentKey(c, width)
         IN  c.cache[k].content
    ELSE [top |-> Render(c, width).top, line |-> Render(c, width).line]

\* TabControl(tabs, active, spacing, closeable)
NewTabControl(tabs, active, spacing, closeable) ==
    [tabs |-> tabs, active |-> active, spacing |-> spacing, closeable |-> closeable,
     mouse_handlers |-> <<>>, cache |-> <<>>]

(***************************************************************************)
(* StackedSplit, TabbedSplit, AccordionSplit                               *)
(***************************************************************************)

\* The longest list of children (and of titles) a split is given.
MaxChildren == 2

\* The child containers there are, and those layout.focus can focus (for the
\* others it raises ValueError).
ChildIds == {1, 2}

Focusable == {1}

\* The glyph widths titles have.
TitleWidths == {1, 2}

\* The lists of children a split is given: a container is the child of one
\* parent only, so no list holds a child twice.
ChildLists ==
    {s \in UNION {[1..n -> ChildIds] : n \in 0..MaxChildren} :
        \A i, j \in 1..Len(s) : i # j => s[i] # s[j]}

\* The lists of titles a split is given: up to MaxChildren titles of one width.
TitleLists == {[i \in 1..n |-> w] : n \in 0..MaxChildren, w \in TitleWidths}

\* The values given as an active index.
ActiveInputs == (-1..(MaxChildren + 1)) \cup {NoIndex}

Step(what, arg) == [step |-> what, arg |-> arg]

\* A slip in load_tabs: every callback is bound to the index of the last tab.
LoadTabsLateBound(sp) ==
    [i \in 1..Len(sp.titles) |->
        Tab(sp.titles[i], Cb("set_active", Len(sp.titles) - 1), NoCb, NoCb)]

\* TabbedSplit.load_tabs
LoadTabs(sp) ==
    [i \in 1..Len(sp.titles) |-> Tab(sp.titles[i], Cb("set_active", i - 1), NoCb, NoCb)]

\* AccordionSplit.draw_container: one section per (title, child) pair of
\* zip(self.titles, self.children).
DrawContainer(sp) ==
    [i \in 1..Min(Len(sp.titles), Len(sp.children)) |->
        [title |-> sp.titles[i], child |-> sp.children[i]]]

\* refresh(): TabbedSplit gives its control new tabs (new partial objects, so
\* no cached paint of the old tuple can be hit again) and its active index;
\* AccordionSplit draws its container again.
Refresh(st) ==
    LET sp == st.split
        st1 == [st EXCEPT !.split.trace = Append(@, Step("refresh", sp.active))]
    IN  IF sp.kind = "tabbed"
        THEN [st1 EXCEPT !.ctl.tabs = LoadTabs(sp),
                         !.ctl.cache = <<>>,
                         !.ctl.active = IF sp.active # NoIndex THEN sp.active ELSE @]
        ELSE [st1 EXCEPT !.split.sections = DrawContainer(sp)]

\* value = max(0, min(value, len(self.children)))
ClampActive(value, children) ==
    IF value # NoIndex THEN Max(0, Min(value, Len(children))) ELSE NoIndex

\* The clamp the setter is meant to do: into [0, len(children) - 1].
ClampActiveToLast(value, children) ==
    IF value # NoIndex THEN Max(0, Min(value, Len(children) - 1)) ELSE NoIndex

\* if value != self._active
ActiveChanges(value, sp) == value # sp.active

\* StackedSplit.active (setter)
SetActiveTo(st, input) ==
    LET value == ClampActive(input, st.split.children)
    IN  IF ~ActiveChanges(value, st.split) THEN st
        ELSE
        LET st1 == Refresh([st EXCEPT !.split.active = value])
            st2 == [st1 EXCEPT !.split.trace = Append(@, Step("fire", st1.split.active))]
        IN  IF value = NoIndex THEN st2
            ELSE IF ~PyInRange(st2.split.children, value)
                 THEN [st2 EXCEPT !.split.err = "IndexError"]
            ELSE IF PyGet(st2.split.children, value) \in Focusable
                 THEN [st2 EXCEPT !.split.trace =
                          Append(@, Step("focus", PyGet(st2.split.children, value)))]
            ELSE [st2 EXCEPT !.split.trace = Append(@, Step("focus_failed", value))]

\* A slip in the children setter: it assigns active again, which clamps it
\* and notifies.
SetChildrenToThenActive(st, value) ==
    SetActiveTo(Refresh([st EXCEPT !.split.children = value]), st.split.active)

\* StackedSplit.children (setter)
SetChildrenTo(st, value) ==
    Refresh([st EXCEPT !.split.children = value])

\* StackedSplit.titles (setter)
SetTitlesTo(st, value) ==
    Refresh([st EXCEPT !.split.titles = value])

\* StackedSplit.active_child(): self.children[self.active], the child the
\* DynamicContainer of a TabbedSplit mounts at each paint.
ActiveChild(sp) ==
    IF sp.active = NoIndex THEN [child |-> 0, err |-> "TypeError"]
    ELSE IF ~PyInRange(sp.children, sp.active) THEN [child |-> 0, err |-> "IndexError"]
    ELSE [child |-> PyGet(sp.children, sp.active), err |-> NoError]

\* A slip in toggle: the open section is not collapsed.
ToggleSectionNoCollapse(st, index) == SetActiveTo(st, index)

\* AccordionSplit.toggle(index)
ToggleSection(st, index) ==
    SetActiveTo(st, IF st.split.active # index THEN index ELSE NoIndex)

\* StackedSplit.__init__ then load_container
NewSplit(kind, children, titles, active) ==
    LET sp == [kind |-> kind, children |-> children, titles |-> titles,
               active |-> active, sections |-> <<>>, op |-> Step("new", active),
               trace |-> <<>>, err |-> NoError]
    IN  IF kind = "tabbed" THEN sp ELSE [sp EXCEPT !.sections = DrawContainer(sp)]

\* self.control = TabControl(self.load_tabs(), active=self.active or 0)
NewSplitControl(sp) ==
    NewTabControl(LoadTabs(sp), IF sp.active = NoIndex THEN 0 ELSE sp.active, 1, FALSE)

(***************************************************************************)
(* TabControl.mouse_handler                                                *)
(***************************************************************************)

MouseEvent(type, row, col) == [type |-> type, row |-> row, col |-> col]

Failed(st) == st.mouse.err # NoError

\* Calling a callback object.
RunCb(st, cb) ==
    LET st1 == [st EXCEPT !.mouse.calls = Append(@, cb)]
    IN  IF cb.kind = "set_active"
        THEN LET st2 == SetActiveTo(st1, cb.arg)
             IN  [st2 EXCEPT !.mouse.err = st2.split.err]
        ELSE IF cb.kind = "activate"
        THEN [st1 EXCEPT !.ctl.active = cb.arg]
        ELSE st1

\* A slip in the scroll-up branch: the index is not floored at 0.
ScrollUpIndexNoFloor(c) == c.active - 1

\* index = max(self.active - 1, 0)
ScrollUpIndex(c) == Max(c.active - 1, 0)

\* index = max(self.active + 1, len(self.tabs))
ScrollDownIndex(c) == Max(c.active + 1, Len(c.tabs))

\* The body shared by the two scroll branches: deactivate the active tab,
\* activate the tab at index.
ScrollTo(st, index) ==
    IF index = st.ctl.active THEN [st EXCEPT !.mouse.result = "NotImplemented"]
    ELSE IF ~PyInRange(st.ctl.tabs, st.ctl.active)
         THEN [st EXCEPT !.mouse.err = "IndexError"]
    ELSE
    LET deactivate == PyGet(st.ctl.tabs, st.ctl.active).on_deactivate
        st1 == IF deactivate # NoCb THEN RunCb(st, deactivate) ELSE st
    IN  IF Failed(st1) THEN st1
        ELSE IF ~PyInRange(st1.ctl.tabs, index)
             THEN [st1 EXCEPT !.mouse.err = "IndexError"]
        ELSE LET st2 == RunCb(st1, PyGet(st1.ctl.tabs, index).on_activate)
             IN  IF Failed(st2) THEN st2 ELSE [st2 EXCEPT !.mouse.result = None]

\* TabControl.mouse_handler(mouse_event)
MouseHandler(st0, ev) ==
    LET st == [st0 EXCEPT
                  !.mouse = [type |-> ev.type, row |-> ev.row, calls |-> <<>>,
                             result |-> "raised", err |-> NoError],
                  !.split.op = Step("mouse", IF ev.row = 1 /\ ev.type = "MOUSE_UP"
                                             THEN ev.col ELSE 0),
                  !.split.trace = <<>>, !.split.err = NoError]
        handlers == st.ctl.mouse_handlers
        clicked == /\ ev.row = 1
                   /\ ev.type = "MOUSE_UP"
                   /\ ev.col \in DOMAIN handlers
                   /\ handlers[ev.col] # NoCb
    IN  IF clicked
        THEN LET st1 == RunCb(st, handlers[ev.col])
             IN  IF Failed(st1) THEN st1 ELSE [st1 EXCEPT !.mouse.result = None]
        ELSE IF ev.type = "SCROLL_UP" THEN ScrollTo(st, ScrollUpIndex(st.ctl))
        ELSE IF ev.type = "SCROLL_DOWN" THEN ScrollTo(st, ScrollDownIndex(st.ctl))
        ELSE [st EXCEPT !.mouse.result = "NotImplemented"]

NoMouse == [type |-> None, row |-> 0, calls |-> <<>>, result |-> None, err |-> NoError]

Widgets == [split |-> split, ctl |-> ctl, mouse |-> mouse]

SetWidgets(st) ==
    /\ split' = st.split
    /\ ctl' = st.ctl
    /\ mouse' = st.mouse

\* The start of an operation on the split that is not a mouse event on its
\* tab bar; op names the operation and its argument.
Fresh(st, op, arg) ==
    [st EXCEPT !.split.op = Step(op, arg), !.split.trace = <<>>,
               !.split.err = NoError, !.mouse = NoMouse]

\* Some command opens a dialog with an OK button (help_keys, help_about,
\* _handle_exception).
OpenInfoDialog ==
    /\ Len(dialogs) < MaxDialogs
    /\ SetDialogState(InfoDialog(DialogState))
    /\ UNCHANGED <<exitVars, widgetVars, restVars>>

\* The user asks to open a file (c-o, c-n).
OpenAskFile ==
    /\ Len(dialogs) < MaxDialogs
    /\ SetDialogState(AskFile(DialogState))
    /\ UNCHANGED <<exitVars, widgetVars, restVars>>

\* The user clicks button k of a dialog that is shown.
ClickButton ==
    /\ \E d \in Range(floats) : \E k \in 1..Len(dialogs[d].buttons) :
        \E found \in BOOLEAN :
            /\ found \/ Len(dialogs) < MaxDialogs
            /\ SetDialogState(ButtonHandler(DialogState, d, k, found))
    /\ UNCHANGED <<exitVars, widgetVars, restVars>>

\* The user moves the focus to another control (tab, s-tab, a mouse click).
FocusNext ==
    /\ focus' \in FindAllControls(floats) \ {focus}
    /\ UNCHANGED <<floats, dialogs, dlog, cbRuns>>
    /\ UNCHANGED <<exitVars, widgetVars, restVars>>

\* The widths the tab bar is painted at, and how many paints the model lets
\* the cache hold.
PaintWidths == {4, MaxWidth}

MaxCached == 1

\* The mouse events given to a tab bar: a button released or pressed on a
\* cell of one of its two rows, or the wheel turned.
MouseEvents ==
    {MouseEvent("MOUSE_UP", 1, col) : col \in 0..(MaxWidth - 1)}
    \cup {MouseEvent("MOUSE_UP", 0, 1), MouseEvent("MOUSE_DOWN", 1, 1)}
    \cup {MouseEvent(type, 1, 0) : type \in {"SCROLL_UP", "SCROLL_DOWN"}}

CanPaint(c, width) ==
    ContentKey(c, width) \in CacheKeys(c) \/ Len(c.cache) < MaxCached

\* No split and no tab bar.
IdleWidgets ==
    /\ split = NewSplit("none", <<>>, <<>>, 0)
    /\ ctl = NewTabControl(<<>>, 0, 1, FALSE)
    /\ mouse = NoMouse

\* A TabbedSplit or an AccordionSplit is constructed with as many titles as
\* children and any active index.
InitSplit ==
    /\ \E kind \in {"tabbed", "accordion"}, n \in 0..MaxChildren, active \in ActiveInputs :
        \E children \in ChildLists, titles \in TitleLists :
            /\ Len(children) = n
            /\ Len(titles) = n
            /\ split = NewSplit(kind, children, titles, active)
            /\ ctl = IF kind = "tabbed" THEN NewSplitControl(split)
                     ELSE NewTabControl(<<>>, 0, 1, FALSE)
    /\ mouse = NoMouse

\* split.active = i
SetActive ==
    /\ \E i \in ActiveInputs :
        SetWidgets(SetActiveTo(Fresh(Widgets, "set_active", i), i))
    /\ UNCHANGED <<exitVars, dialogVars, restVars>>

\* split.children = list
SetChildren ==
    /\ \E value \in ChildLists :
        SetWidgets(SetChildrenTo(Fresh(Widgets, "set_children", 0), value))
    /\ UNCHANGED <<exitVars, dialogVars, restVars>>

\* split.titles = list
SetTitles ==
    /\ \E value \in TitleLists :
        SetWidgets(SetTitlesTo(Fresh(Widgets, "set_titles", 0), value))
    /\ UNCHANGED <<exitVars, dialogVars, restVars>>

\* The user releases the mouse button on the title row of a section of an
\* AccordionSplit: AccordionSplit.mouse_handler(index, MOUSE_UP).
Toggle ==
    /\ split.kind = "accordion"
    /\ \E index \in 0..(Len(split.sections) - 1) :
        SetWidgets(ToggleSection(Fresh(Widgets, "toggle", index), index))
    /\ UNCHANGED <<exitVars, dialogVars, restVars>>

\* The tab bar of a TabbedSplit is painted, at the width of its window.
SplitPaint ==
    /\ split.kind = "tabbed"
    /\ CanPaint(ctl, MaxWidth)
    /\ SetWidgets([Fresh(Widgets, "paint", 0) EXCEPT !.ctl = CreateContent(ctl, MaxWidth)])
    /\ UNCHANGED <<exitVars, dialogVars, restVars>>

\* A mouse event reaches the tab bar of a TabbedSplit.
SplitMouse ==
    /\ split.kind = "tabbed"
    /\ \E ev \in MouseEvents :
        SetWidgets(MouseHandler(Widgets, ev))
    /\ UNCHANGED <<exitVars, dialogVars, restVars>>

\* The spacings a tab bar is given.
Spacings == {0, 1}

\* How many tabs a tab bar of its own is given.
MaxTabs == 2

\* The tuples of tabs a tab bar of its own is given: n tabs with titles of one
\* width; the owner's callback activate j makes tab j the active one; each tab
\* has a deactivate callback or none; all have a close callback or none has.
TabTuples ==
    {[j \in 1..n |->
        Tab(w, Cb("activate", j - 1),
            IF j \in withDeactivate THEN Cb("deactivate", j - 1) ELSE NoCb,
            IF withClose THEN Cb("close", j - 1) ELSE NoCb)] :
        n \in 0..MaxTabs, w \in TitleWidths,
        withDeactivate \in SUBSET (1..MaxTabs), withClose \in BOOLEAN}

\* A TabControl is constructed by an owner other than a TabbedSplit.
InitTab ==
    /\ split = NewSplit("none", <<>>, <<>>, 0)
    /\ \E tabs \in TabTuples, spacing \in Spacings, closeable \in BOOLEAN :
        \E active \in 0..Max(Len(tabs) - 1, 0) :
            ctl = NewTabControl(tabs, active, spacing, closeable)
    /\ mouse = NoMouse

\* The tab bar is painted.
TabPaint ==
    /\ split.kind = "none"
    /\ \E width \in PaintWidths :
        /\ CanPaint(ctl, width)
        /\ ctl' = CreateContent(ctl, width)
    /\ mouse' = NoMouse
    /\ UNCHANGED <<split, exitVars, dialogVars, restVars>>

\* A mouse event reaches the tab bar.
TabMouse ==
    /\ split.kind = "none"
    /\ \E ev \in MouseEvents :
        LET st == MouseHandler(Widgets, ev)
        IN  /\ ctl' = st.ctl
            /\ mouse' = st.mouse
    /\ UNCHANGED <<split, exitVars, dialogVars, restVars>>

\* The owner of the tab bar assigns control.spacing.
BarSetSpacing ==
    /\ split.kind = "none"
    /\ \E spacing \in Spacings \ {ctl.spacing} :
        ctl' = [ctl EXCEPT !.spacing = spacing]
    /\ mouse' = NoMouse
    /\ UNCHANGED <<split, exitVars, dialogVars, restVars>>

\* The owner of the tab bar assigns control.closeable.
BarSetCloseable ==
    /\ split.kind = "none"
    /\ ctl' = [ctl EXCEPT !.closeable = ~ctl.closeable]
    /\ mouse' = NoMouse
    /\ UNCHANGED <<split, exitVars, dialogVars, restVars>>

\* The owner of the tab bar assigns control.tabs and control.active, as
\* TabbedSplit.refresh does: a tuple of tabs and a position in it, one of
\* them new.
BarSetTabs ==
    /\ split.kind = "none"
    /\ \E tabs \in TabTuples : \E active \in 0..Max(Len(tabs) - 1, 0) :
        /\ tabs # ctl.tabs \/ active # ctl.active
        /\ ctl' = [ctl EXCEPT !.tabs = tabs, !.active = active]
    /\ mouse' = NoMouse
    /\ UNCHANGED <<split, exitVars, dialogVars, restVars>>

(***************************************************************************)
(* MIME types and their rank                                               *)
(***************************************************************************)

\* A MIME type or a pattern is the tuple of its components, as PurePath
\* splits it at "/".
TextPlain == <<"text", "plain">>

TextHtml == <<"text", "html">>

ImagePng == <<"image", "png">>

WidgetView == <<"application", "vnd.jupyter.widget-view+json">>

Traceback == <<"text", "x-python-traceback">>

\* A type that only the pattern "*" of MIME_ORDER matches.
AppJson == <<"application", "json">>

\* f'stream/{name}'
StreamMime(name) == <<"stream", name>>

\* PurePath(mime).match(pattern) for a relative pattern: the pattern's
\* components are matched against the last components of the path; a
\* component "*" matches any one component.
PathMatch(path, pattern) ==
    /\ Len(pattern) <= Len(path)
    /\ \A k \in 1..Len(pattern) :
        pattern[k] \in {"*", path[Len(path) - Len(pattern) + k]}

MIME_ORDER ==
    << WidgetView, <<"image", "*">>, <<"application", "pdf">>, <<"text", "latex">>,
       <<"text", "markdown">>, <<"text", "x-markdown">>, Traceback,
       <<"text", "stderr">>, TextHtml, <<"text", "*">>, <<"*">> >>

\* What matters of a payload: whether it holds "\x1b[" and whether it holds "<".
Payload(ansi, tag) == [ansi |-> ansi, tag |-> tag]

\* The rank returned when no pattern matches.
NoRank == 999

\* i -= 2 for text/plain with escape sequences; without the adjustment in the
\* slip below.
UprankNone(i, mime, data) == i

Uprank(i, mime, data) == IF mime = TextPlain /\ data.ansi THEN i - 2 ELSE i

\* A slip in the rank: text/html without "<" is not demoted.
DownrankNone(i, mime, data) == i

\* i += 2 for text/html without "<"
Downrank(i, mime, data) == IF mime = TextHtml /\ ~data.tag THEN i + 2 ELSE i

\* The loop of _calculate_mime_rank from position i (0-based) on; i is set
\* anew by enumerate in every round.
RECURSIVE MimeRankFrom(_, _, _)
MimeRankFrom(i, mime, data) ==
    IF i >= Len(MIME_ORDER) THEN NoRank
    ELSE IF PathMatch(mime, MIME_ORDER[i + 1])
         THEN Downrank(Uprank(i, mime, data), mime, data)
         ELSE MimeRankFrom(i + 1, mime, data)

\* _calculate_mime_rank((mime, data))
CalculateMimeRank(mime, data) == MimeRankFrom(0, mime, data)

\* A dict is the sequence of its items in insertion order.
Item(mime, data) == [mime |-> mime, data |-> data]

Keys(d) == {d[k].mime : k \in 1..Len(d)}

DictGet(d, key) == (CHOOSE k \in 1..Len(d) : d[k].mime = key)

\* sorted(items, key=_calculate_mime_rank): a stable sort, by insertion.
RECURSIVE InsertByRank(_, _)
InsertByRank(sorted, item) ==
    IF sorted = <<>> THEN <<item>>
    ELSE IF CalculateMimeRank(item.mime, item.data)
                < CalculateMimeRank(sorted[Len(sorted)].mime, sorted[Len(sorted)].data)
         THEN Append(InsertByRank(SubSeq(sorted, 1, Len(sorted) - 1), item),
                     sorted[Len(sorted)])
         ELSE Append(sorted, item)

RECURSIVE SortedByRank(_)
SortedByRank(items) ==
    IF items = <<>> THEN <<>>
    ELSE InsertByRank(SortedByRank(SubSeq(items, 1, Len(items) - 1)), items[Len(items)])

(***************************************************************************)
(* CellOutput and CellOutputArea                                           *)
(***************************************************************************)

\* The most output records a cell is given, the most CellOutput objects and
\* the most renderers the model lets a run construct.
MaxOutputs == 2

MaxObjects == 3

MaxRenderers == 3

\* A raw output record: output_type (or "absent"), name and text of a stream,
\* the traceback of an error, and the data mapping (has_data: whether the
\* record has the key at all).
OutputJson(type, text, hasData, data) ==
    [output_type |-> type, name |-> "stdout", text |-> text,
     has_data |-> hasData, data |-> data]

Plain == Payload(FALSE, FALSE)

\* The output records the cells of the model have.
Records ==
    { OutputJson("stream", Plain, FALSE, <<>>),
      OutputJson("display_data", Plain, TRUE,
                 <<Item(TextPlain, Plain), Item(WidgetView, Plain)>>),
      OutputJson("display_data", Plain, TRUE, <<>>) }

JsonLists == UNION {[1..n -> Records] : n \in 0..MaxOutputs}

\* A slip in data: the mapping is returned in the order of the record.
OutputDataUnsorted(json) ==
    IF json.output_type = "stream" THEN <<Item(StreamMime(json.name), json.text)>>
    ELSE IF json.output_type = "error" THEN <<Item(Traceback, json.text)>>
    ELSE IF json.has_data THEN json.data ELSE <<>>

\* CellOutput.data
OutputData(json) ==
    LET type == IF json.output_type = "absent" THEN "unknown" ELSE json.output_type
        data == IF type = "stream" THEN <<Item(StreamMime(json.name), json.text)>>
                ELSE IF type = "error" THEN <<Item(Traceback, json.text)>>
                ELSE IF json.has_data THEN json.data ELSE <<>>
    IN  SortedByRank(data)

\* The value None of _selected_mime, where a MIME type is expected.
NoMime == <<"None">>

\* CellOutput(json, cell): instance number id
NewCellOutput(id, json) ==
    [id |-> id, json |-> json, selected_mime |-> NoMime, containers |-> <<>>]

\* What a property access gives: a value or an exception.
Returned(value) == [err |-> NoError, value |-> value]

Raised(err) == [err |-> err, value |-> None]

\* CellOutput.selected_mime
SelectedMime(out) ==
    LET data == OutputData(out.json)
    IN  IF out.selected_mime \notin Keys(data)
        THEN IF data = <<>> THEN Raised("StopIteration") ELSE Returned(data[1].mime)
        ELSE Returned(out.selected_mime)

\* MIME_RENDERERS, in the order of the dict
MIME_RENDERERS ==
    << [pattern |-> WidgetView, element |-> "CellOutputWidgetElement"],
       [pattern |-> <<"*">>, element |-> "CellOutputDataElement"] >>

\* The renderer patterns that match a MIME type, first first.
MatchingRenderers(mime) ==
    SelectSeq(MIME_RENDERERS, LAMBDA r : PathMatch(mime, r.pattern))

\* OutputElement(mime=..., data=..., metadata=..., cell=...): instance number id
Element(id, kind, mime, data) == [id |-> id, kind |-> kind, mime |-> mime, data |-> data]

\* A slip in container: the cache is not consulted.
CachedNever(out, mime) == FALSE

\* self.selected_mime in self._containers
Cached(out, mime) == mime \in Keys(out.containers)

\* CellOutput.container: the object after the access, how many renderers
\* have been made, and what the access gives.
Container(out, made) ==
    LET sel == SelectedMime(out)
    IN  IF sel.err # NoError THEN [out |-> out, made |-> made, res |-> sel]
        ELSE IF Cached(out, sel.value)
        THEN [out |-> out, made |-> made,
              res |-> Returned(out.containers[DictGet(out.containers, sel.value)].data)]
        ELSE IF MatchingRenderers(sel.value) = <<>>
        THEN [out |-> out, made |-> made, res |-> Raised("KeyError")]
        ELSE LET data == OutputData(out.json)
                 element == Element(made + 1, MatchingRenderers(sel.value)[1].element,
                                    sel.value, data[DictGet(data, sel.value)].data)
                 others == SelectSeq(out.containers, LAMBDA it : it.mime # sel.value)
             IN  [out |-> [out EXCEPT !.containers = Append(others, Item(sel.value, element))],
                  made |-> made + 1, res |-> Returned(element)]

\* A slip in the json setter: the renderers are kept.
SetOutputJsonKeepCache(out, json) == [out EXCEPT !.json = json]

\* CellOutput.json (setter)
SetOutputJson(out, json) == [out EXCEPT !.json = json, !.containers = <<>>]

\* A slip in rendered_outputs: every output is constructed anew.
ReusesOutputNever(k, existing) == FALSE

\* i < n_existing_outputs, for the k-th record (k = i + 1)
ReusesOutput(k, existing) == k <= Len(existing)

\* A slip in rendered_outputs: the outputs beyond the new list are kept.
ReconcileKeepsTail(k, json, existing, r) ==
    LET n == Len(json)
        m == Len(existing)
    IN  [outputs |-> [i \in 1..(IF n > m THEN n ELSE m) |->
                        IF i <= n /\ i <= m THEN SetOutputJson(existing[i], json[i])
                        ELSE IF i <= m THEN existing[i]
                        ELSE NewCellOutput(r.objects + i - m, json[i])],
         objects |-> r.objects + (IF n > m THEN n - m ELSE 0)]

\* The loop of CellOutputArea.rendered_outputs over the records from the k-th
\* on; r holds rendered_outputs and the number of CellOutput objects made.
RECURSIVE ReconcileFrom(_, _, _, _)
ReconcileFrom(k, json, existing, r) ==
    IF k > Len(json) THEN r
    ELSE IF ReusesOutput(k, existing)
         THEN ReconcileFrom(k + 1, json, existing,
                  [r EXCEPT !.outputs = Append(@, SetOutputJson(existing[k], json[k]))])
         ELSE ReconcileFrom(k + 1, json, existing,
                  [outputs |-> Append(r.outputs, NewCellOutput(r.objects + 1, json[k])),
                   objects |-> r.objects + 1])

\* [to_container(x) for x in rendered_outputs] from the k-th output on: each
\* output's container is taken in turn; the first exception ends it.
RECURSIVE ToContainers(_, _)
ToContainers(k, r) ==
    IF k > Len(r.outputs) \/ r.err # NoError THEN r
    ELSE LET c == Container(r.outputs[k], r.made)
         IN  ToContainers(k + 1,
                 IF c.res.err # NoError THEN [r EXCEPT !.err = c.res.err]
                 ELSE [r EXCEPT !.outputs[k] = c.out, !.made = c.made,
                                !.children = Append(@, c.res.value)])

\* CellOutputArea.json (setter), with the rendered_outputs it evaluates
SetAreaJson(c, json) ==
    LET rec == ReconcileFrom(1, json, c.rendered, [outputs |-> <<>>, objects |-> c.objects])
        got == ToContainers(1, [outputs |-> rec.outputs, made |-> c.made,
                                children |-> <<>>, err |-> NoError])
    IN  [c EXCEPT !.json = json,
                  !.rendered = got.outputs,
                  !.objects = rec.objects,
                  !.made = got.made,
                  !.children = IF got.err = NoError THEN got.children ELSE @,
                  !.err = got.err]

\* The last operation on the cell outputs: its name, the position of the
\* output it was about, and the renderer it gave (id 0: none).
OutputOp(name, at, element) == [name |-> name, at |-> at, element |-> element]

NoElement == Element(0, "None", NoMime, Plain)

\* A call of _calculate_mime_rank: its argument and its result.
RankCall(mime, data, result) == [mime |-> mime, data |-> data, result |-> result]

NoRankCall == RankCall(NoMime, Plain, 0)

\* A read of CellOutput.data and of selected_mime: the output's record and
\* what the two properties gave.
DataCall(json, data, selected) == [json |-> json, data |-> data, selected |-> selected]

NoDataCall == DataCall(OutputJson("absent", Plain, FALSE, <<>>), <<>>, Raised("none"))

\* CellOutputArea(json, cell)
NewArea(json) ==
    SetAreaJson([json |-> <<>>, rendered |-> <<>>, children |-> <<>>, objects |-> 0,
                 made |-> 0, err |-> NoError, op |-> OutputOp("new", 0, NoElement),
                 rank |-> NoRankCall, look |-> NoDataCall], json)

\* The start of an operation on the cell outputs.
FreshCells(c, name, at) ==
    [c EXCEPT !.op = OutputOp(name, at, NoElement), !.err = NoError, !.rank = NoRankCall,
              !.look = NoDataCall]

\* No cell output area.
IdleCells ==
    cells = [json |-> <<>>, rendered |-> <<>>, children |-> <<>>, objects |-> 0,
             made |-> 0, err |-> NoError, op |-> OutputOp("none", 0, NoElement),
             rank |-> NoRankCall, look |-> NoDataCall]

\* A CellOutputArea is constructed for the outputs of a cell.
InitCells ==
    \E json \in JsonLists :
        /\ NewArea(json).err = NoError
        /\ cells = NewArea(json)

\* area.json = list
AreaJson ==
    /\ \E json \in JsonLists :
        /\ cells.objects + Max(Len(json) - Len(cells.rendered), 0) <= MaxObjects
        /\ cells.made + Len(json) <= MaxRenderers
        /\ cells' = SetAreaJson(FreshCells(cells, "area_json", 0), json)
    /\ UNCHANGED <<exitVars, dialogVars, widgetVars, shell, preview, refsplit>>

\* output.json = record, for an output at position k of the area that has a
\* renderer to lose
OutputSetJson ==
    /\ \E k \in 1..Len(cells.rendered), json \in Records :
        /\ cells.rendered[k].containers # <<>>
        /\ cells' = [FreshCells(cells, "json", k) EXCEPT
                     !.rendered[k] = SetOutputJson(cells.rendered[k], json)]
    /\ UNCHANGED <<exitVars, dialogVars, widgetVars, shell, preview, refsplit>>

\* output.container, for the output at position k of the area
OutputContainer ==
    /\ cells.made < MaxRenderers
    /\ \E k \in 1..Len(cells.rendered) :
        LET c == Container(cells.rendered[k], cells.made)
        IN  cells' = [FreshCells(cells, "container", k) EXCEPT
                         !.rendered[k] = c.out,
                         !.made = c.made,
                         !.err = c.res.err,
                         !.op.element = IF c.res.err = NoError THEN c.res.value
                                        ELSE NoElement]
    /\ UNCHANGED <<exitVars, dialogVars, widgetVars, shell, preview, refsplit>>

\* The MIME types and payloads the rank is asked for.
RankedMimes == {TextPlain, TextHtml, ImagePng, WidgetView, Traceback, StreamMime("stdout")}

Payloads == {Payload(ansi, tag) : ansi, tag \in BOOLEAN}

\* _calculate_mime_rank((mime, data)); the rank does not depend on the state
\* of the outputs, so it is asked for before they change.
RankMime ==
    /\ cells.op.name \in {"new", "rank"}
    /\ \E mime \in RankedMimes, data \in Payloads :
        cells' = [FreshCells(cells, "rank", 0) EXCEPT
                     !.rank = RankCall(mime, data, CalculateMimeRank(mime, data))]
    /\ UNCHANGED <<exitVars, dialogVars, widgetVars, shell, preview, refsplit>>

\* The longest data mapping of the records whose data is read.
MaxItems == 3

\* The entries those mappings have: an image, a type only "*" matches, HTML
\* with and without a tag, plain text with and without an escape marker.
DataItems ==
    {Item(ImagePng, Plain), Item(AppJson, Plain)}
    \cup {Item(TextHtml, Payload(FALSE, tag)) : tag \in BOOLEAN}
    \cup {Item(TextPlain, Payload(ansi, FALSE)) : ansi \in BOOLEAN}

\* The data mappings, in the order of their keys; a key is there once.
DataMappings ==
    {d \in UNION {[1..n -> DataItems] : n \in 0..MaxItems} :
        \A i, j \in 1..Len(d) : i # j => d[i].mime # d[j].mime}

\* output.data and output.selected_mime are read, for a CellOutput made for
\* a display_data record; the two do not depend on the state of the area, so
\* they are read before it changes.
OutputDataOf ==
    /\ cells.op.name = "new"
    /\ \E d \in DataMappings :
        LET json == OutputJson("display_data", Plain, TRUE, d)
        IN  cells' = [FreshCells(cells, "data", 0) EXCEPT
                         !.look = DataCall(json, OutputData(json),
                                           SelectedMime(NewCellOutput(0, json)))]
    /\ UNCHANGED <<exitVars, dialogVars, widgetVars, shell, preview, refsplit>>

(***************************************************************************)
(* TuiApp.tab_op                                                           *)
(***************************************************************************)

\* The tabs of the shell, and the sentinel for "no tab" (self.tab is None, or
\* the argument tab is None).
NumShellTabs == 2

NoTab == 0

ShellTabs == 1..NumShellTabs

\* The operation names asked for, and what a tab has under a name: nothing,
\* an attribute that is not callable, or a method.
Operations == {"save", "cut"}

AttrKinds == {"absent", "data", "method"}

\* The argument lists given to tab_op (None stands for args not given).
ArgLists == {None, "[]", "[1]"}

\* hasattr(tab, operation)
HasAttr(sh, tab, operation) == sh.attrs[tab][operation] # "absent"

\* callable(func)
Callable(sh, tab, operation) == sh.attrs[tab][operation] = "method"

\* A slip in tab_op: the attribute is called without the callable() test.
CallsItAlways(sh, tab, operation) == TRUE

\* if callable(func)
CallsIt(sh, tab, operation) == Callable(sh, tab, operation)

\* TuiApp.tab_op(operation, tab, args): the shell after the call.  The
\* attribute is tested on tab and fetched from self.tab.
TabOpCall(sh, operation, tabArg, argsArg) ==
    LET args == IF argsArg = None THEN "[]" ELSE argsArg
        tab == IF tabArg = NoTab THEN sh.focused ELSE tabArg
    IN  IF tab # NoTab /\ HasAttr(sh, tab, operation)
        THEN IF sh.focused = NoTab \/ ~HasAttr(sh, sh.focused, operation)
             THEN [sh EXCEPT !.err = "AttributeError"]
             ELSE IF CallsIt(sh, sh.focused, operation)
                  THEN IF sh.attrs[sh.focused][operation] = "method"
                       THEN [sh EXCEPT !.calls = Append(@,
                                [tab |-> sh.focused, operation |-> operation, args |-> args])]
                       ELSE [sh EXCEPT !.err = "TypeError"]
                  ELSE sh
        ELSE sh

\* The request tab_op was last called with.
TabOpRequest(operation, tab, args) == [operation |-> operation, tab |-> tab, args |-> args]

NoRequest == TabOpRequest(None, NoTab, None)

\* No tab is open and tab_op was never called.
IdleShell ==
    shell = [focused |-> NoTab, attrs |-> [t \in ShellTabs |-> [o \in Operations |-> "absent"]],
             calls |-> <<>>, err |-> NoError, op |-> NoRequest]

\* The shell with its tabs open, each with its own attributes, and one of
\* them, or none, focused.
InitShell ==
    \E focused \in ShellTabs \cup {NoTab}, attrs \in [ShellTabs -> [Operations -> AttrKinds]] :
        shell = [focused |-> focused, attrs |-> attrs, calls |-> <<>>, err |-> NoError,
                 op |-> NoRequest]

\* A menu entry or a caller runs tab_op(operation, tab, args).
TabOp ==
    /\ \E operation \in Operations, tab \in ShellTabs \cup {NoTab}, args \in ArgLists :
        shell' = TabOpCall([shell EXCEPT !.op = TabOpRequest(operation, tab, args),
                                         !.calls = <<>>, !.err = NoError],
                           operation, tab, args)
    /\ UNCHANGED <<exitVars, dialogVars, widgetVars, cells, preview, refsplit>>

\* The focus moves to another tab, or to none.
FocusTab ==
    /\ \E t \in ShellTabs \cup {NoTab} :
        /\ t # shell.focused
        /\ shell' = [shell EXCEPT !.focused = t, !.op = NoRequest, !.calls = <<>>,
                                   !.err = NoError]
    /\ UNCHANGED <<exitVars, dialogVars, widgetVars, cells, preview, refsplit>>

(***************************************************************************)
(* PreviewApp.load_output                                                  *)
(***************************************************************************)

\* config.output_file: None, one of the names of a standard stream, or
\* the path of a file.
OutputFiles == {None, "-", "/dev/stdout", "/dev/stderr", "out.txt"}

\* How open(config.output_file, "w+") ends.
OpenResults ==
    {"opened", "FileNotFoundError", "PermissionError", "UnsupportedOperation",
     "IsADirectoryError", "NotADirectoryError", "OSError"}

\* except (FileNotFoundError, PermissionError, io.UnsupportedOperation)
Caught == {"FileNotFoundError", "PermissionError", "UnsupportedOperation"}

\* The configuration load_output reads and the terminal it runs on.
PreviewConfig(page, outputFile, colorDepth, stdoutTty, stderrTty) ==
    [page |-> page, output_file |-> outputFile, color_depth |-> colorDepth,
     stdout_tty |-> stdoutTty, stderr_tty |-> stderrTty]

\* What load_output did: the file it writes to, whether it wrapped the file
\* in a PseudoTTY, the errors it logged, and the exception it let through.
Loaded(file, pseudo, logged, err) ==
    [file |-> file, pseudo_tty |-> pseudo, logged |-> logged, err |-> err]

NotLoaded == Loaded(None, FALSE, <<>>, NoError)

\* if not output_file.isatty() and cls.config.color_depth is not None
LooksLikeTty(cfg, file, isatty) ==
    Loaded(file, ~isatty /\ cfg.color_depth # None, <<>>, NoError)

\* PreviewApp.load_output, when open() ends as opened says
LoadOutputCall(cfg, opened) ==
    IF cfg.page THEN Loaded("TemporaryFile", TRUE, <<>>, NoError)
    ELSE IF cfg.output_file \in {None, "-", "/dev/stdout"}
         THEN LooksLikeTty(cfg, "stdout", cfg.stdout_tty)
    ELSE IF cfg.output_file = "/dev/stderr"
         THEN LooksLikeTty(cfg, "stderr", cfg.stderr_tty)
    ELSE IF opened = "opened"
         THEN LooksLikeTty(cfg, cfg.output_file, FALSE)
    ELSE IF opened \in Caught
         THEN [LooksLikeTty(cfg, "stdout", cfg.stdout_tty) EXCEPT
                  !.logged = <<opened, "cannot be opened">>]
    ELSE Loaded(None, FALSE, <<>>, opened)

\* Whether load_output gets as far as open(cls.config.output_file, "w+").
CallsOpen(cfg) ==
    ~cfg.page /\ cfg.output_file \notin {None, "-", "/dev/stdout", "/dev/stderr"}

\* load_output was not called.
IdlePreview ==
    preview = [cfg |-> PreviewConfig(FALSE, None, None, TRUE, TRUE),
               opened |-> None, out |-> NotLoaded, runs |-> 0]

\* The preview application is configured.
InitPreview ==
    \E page, stdoutTty, stderrTty \in BOOLEAN, outputFile \in OutputFiles,
       colorDepth \in {None, "24"} :
        preview = [cfg |-> PreviewConfig(page, outputFile, colorDepth, stdoutTty, stderrTty),
                   opened |-> None, out |-> NotLoaded, runs |-> 0]

\* load_output runs; the file system decides how open() ends.
LoadOutput ==
    /\ preview.runs = 0
    /\ \E opened \in (IF CallsOpen(preview.cfg) THEN OpenResults ELSE {None}) :
        preview' = [preview EXCEPT !.opened = opened,
                                   !.out = LoadOutputCall(preview.cfg, opened),
                                   !.runs = 1]
    /\ UNCHANGED <<exitVars, dialogVars, widgetVars, cells, shell, refsplit>>

(***************************************************************************)
(* ReferencedSplit (widgets/layout.py)                                     *)
(***************************************************************************)
\* The most items the referenced list holds.
MaxRefChildren == 3

\* The most distinct items put in the referenced list.
NumRefItems == 2

\* What the list holds: containers, and widgets that wrap a container.
RefItems ==
    [kind : {"container", "widget"}, id : 1..NumRefItems]

RefLists ==
    UNION {[1..n -> RefItems] : n \in 0..MaxRefChildren}

\* to_container(x): a container is itself, a widget gives the container it
\* wraps.
ToContainer(x) ==
    IF x.kind = "container" THEN x ELSE [kind |-> "container", id |-> x.id + NumRefItems]

\* ReferencedSplit.children (getter): a new list of the containers of the
\* items _children holds now.
RefChildren(rs) ==
    [i \in 1..Len(rs.list) |-> ToContainer(rs.list[i])]

\* ReferencedSplit.children (setter): _children is the list given, and the
\* container gets the list the getter builds at this moment.
RefSetChildrenTo(rs, children) ==
    LET kept == [rs EXCEPT !.list = children]
    IN  [kept EXCEPT !.container = RefChildren(kept)]

\* ReferencedSplit.__init__: split([]) then the setter.
NewReferencedSplit(children) ==
    RefSetChildrenTo([list |-> <<>>, container |-> <<>>], children)

IdleRef ==
    refsplit = NewReferencedSplit(<<>>)

InitRef ==
    \E children \in RefLists : refsplit = NewReferencedSplit(children)

\* referenced.children = another list.
RefSetChildren ==
    /\ \E children \in RefLists : refsplit' = RefSetChildrenTo(refsplit, children)
    /\ UNCHANGED <<exitVars, dialogVars, widgetVars, cells, shell, preview>>

\* The owner of the list appends an item to it; _children is that list.
RefAppend ==
    /\ Len(refsplit.list) < MaxRefChildren
    /\ \E x \in RefItems : refsplit' = [refsplit EXCEPT !.list = Append(@, x)]
    /\ UNCHANGED <<exitVars, dialogVars, widgetVars, cells, shell, preview>>

\* The owner of the list deletes one of its items.
RefRemove ==
    /\ \E i \in 1..Len(refsplit.list) :
        refsplit' = [refsplit EXCEPT
                        !.list = SubSeq(@, 1, i - 1) \o SubSeq(@, i + 1, Len(@))]
    /\ UNCHANGED <<exitVars, dialogVars, widgetVars, cells, shell, preview>>

\* The owner of the list replaces one of its items.
RefReplace ==
    /\ \E i \in 1..Len(refsplit.list) :
        \E x \in RefItems \ {refsplit.list[i]} :
            refsplit' = [refsplit EXCEPT !.list[i] = x]
    /\ UNCHANGED <<exitVars, dialogVars, widgetVars, cells, shell, preview>>

\* The components not started.
IdleRest == IdleCells /\ IdleShell /\ IdlePreview /\ IdleRef

InitOfExit == InitExit /\ IdleDialog /\ IdleWidgets /\ IdleRest

NextExit == Exit \/ ConfirmClose \/ CancelClose

SpecExit == InitOfExit /\ [][NextExit]_vars

InitOfDialog == IdleExit /\ InitDialog /\ IdleWidgets /\ IdleRest

NextDialog == OpenInfoDialog \/ OpenAskFile \/ ClickButton \/ FocusNext

SpecDialog == InitOfDialog /\ [][NextDialog]_vars

\* The dialogs with nothing but openings and clicks: the focus moves only
\* as dialog() and the button handlers move it.
NextModal == OpenInfoDialog \/ OpenAskFile \/ ClickButton

SpecModal == InitOfDialog /\ [][NextModal]_vars

InitOfSplit == IdleExit /\ IdleDialog /\ InitSplit /\ IdleRest

NextSplit == SetActive \/ SetChildren \/ SetTitles \/ Toggle \/ SplitPaint \/ SplitMouse

SpecSplit == InitOfSplit /\ [][NextSplit]_vars

InitOfTab == IdleExit /\ IdleDialog /\ InitTab /\ IdleRest

NextTab == TabPaint \/ TabMouse

SpecTab == InitOfTab /\ [][NextTab]_vars

InitOfBar == InitOfTab

NextBar == TabPaint \/ BarSetSpacing \/ BarSetCloseable \/ BarSetTabs

SpecBar == InitOfBar /\ [][NextBar]_vars

InitOfOutput ==
    IdleExit /\ IdleDialog /\ IdleWidgets /\ InitCells /\ IdleShell /\ IdlePreview /\ IdleRef

NextOutput == AreaJson \/ OutputSetJson \/ OutputContainer \/ RankMime \/ OutputDataOf

SpecOutput == InitOfOutput /\ [][NextOutput]_vars

InitOfTabOp ==
    IdleExit /\ IdleDialog /\ IdleWidgets /\ IdleCells /\ InitShell /\ IdlePreview /\ IdleRef

NextTabOp == TabOp \/ FocusTab

SpecTabOp == InitOfTabOp /\ [][NextTabOp]_vars

InitOfPreview ==
    IdleExit /\ IdleDialog /\ IdleWidgets /\ IdleCells /\ IdleShell /\ InitPreview /\ IdleRef

NextPreview == LoadOutput

SpecPreview == InitOfPreview /\ [][NextPreview]_vars

InitOfRef ==
    IdleExit /\ IdleDialog /\ IdleWidgets /\ IdleCells /\ IdleShell /\ IdlePreview /\ InitRef

NextRef == RefSetChildren \/ RefAppend \/ RefRemove \/ RefReplace

SpecRef == InitOfRef /\ [][NextRef]_vars

(***************************************************************************)
(* Properties of the exit chain                                            *)
(***************************************************************************)

\* The positions of the log holding the event.
At(kind, t, e) == {i \in 1..Len(app.log) : app.log[i] = Event(kind, t, e)}

Happened(kind, t, e) == At(kind, t, e) # {}

\* Some occurrence of the first event precedes every occurrence of the second.
Before(a, b) == \A i \in b : \E k \in a : k < i

ChainIds == 1..Len(app.chains)

\* The tabs of chain e whose close the chain has requested, in request order.
RequestedBy(e) ==
    SelectSeq([i \in 1..Len(app.log) |->
                  IF app.log[i].ev = "request" /\ app.log[i].chain = e
                  THEN app.log[i].tab ELSE 0],
              LAMBDA t : t # 0)

Reverse(s) == [i \in 1..Len(s) |-> s[Len(s) + 1 - i]]

IsPrefix(p, s) == Len(p) <= Len(s) /\ \A i \in 1..Len(p) : p[i] = s[i]

\* C1: when the close of a tab is cancelled, the exit chain that asked for it
\* requests no close of a tab to the left of the cancelled one and never
\* really exits; after a single exit call the tabs to the right of the
\* cancelled one are closed, the cancelled one and those to its left stay
\* open, and the application has not exited.
C1_CancelStopsChain ==
    \A e \in ChainIds : \A k \in 1..Len(app.chains[e]) :
        Happened("cancel", app.chains[e][k], e) =>
            /\ \A j \in 1..(k - 1) : ~Happened("request", app.chains[e][j], e)
            /\ ~Happened("complete", app.chains[e][k], e)
            /\ ~Happened("exit", 0, e)
            /\ app.calls = 1 =>
                /\ app.tabs = SubSeq(app.chains[e], 1, k)
                /\ app.exits = 0

\* C1 witness: exit with tabs [1, 2, 3], tab 3 closed, the close of tab 2 cancelled.
C1_Witness ==
    /\ app.calls = 1
    /\ app.chains = << <<1, 2, 3>> >>
    /\ Happened("cancel", 2, 1)
    /\ Happened("cleanup", 3, 1)
    /\ app.tabs = <<1, 2>>

\* C2: in every exit chain the closes are requested strictly from the last tab
\* to the first, the close of a tab is requested only after the close of the
\* tab to its right has completed, and the real exit comes only after every
\* tab's close has completed and right after the cleanup of the first tab,
\* which after a single exit call leaves no tab open.
C2_ChainOrder ==
    \A e \in ChainIds :
        LET s == app.chains[e]
            n == Len(s)
        IN  /\ n >= 1
            /\ IsPrefix(RequestedBy(e), Reverse(s))
            /\ \A j \in 1..(n - 1) :
                    /\ Happened("request", s[j], e) => Happened("complete", s[j + 1], e)
                    /\ Before(At("complete", s[j + 1], e), At("request", s[j], e))
            /\ \A x \in At("exit", 0, e) :
                    /\ \A j \in 1..n : \E c \in At("complete", s[j], e) : c < x
                    /\ x > 1
                    /\ app.log[x - 1].ev = "cleanup"
                    /\ app.log[x - 1].chain = e
                    /\ app.calls = 1 =>
                        /\ app.log[x - 1].tab = s[1]
                        /\ app.tabs = <<>>
                        /\ app.exits = 1

\* C2 witness: a chain over three tabs, one of which asked the user, has run
\* to the real exit.
C2_Witness ==
    /\ app.calls = 1
    /\ app.chains = << <<1, 2, 3>> >>
    /\ dirty[2]
    /\ Happened("exit", 0, 1)

\* The positions of the log at which the process exit was invoked.
ExitEvents == {i \in 1..Len(app.log) : app.log[i].ev = "exit"}

\* C36: however exit invocations interleave with the completions of pending
\* tab closes, the chains invoke the process exit at most once: a process
\* exit that follows another one never comes from a chain, only from an exit
\* invoked anew, after the first process exit, with no tab open.
C36_ExitAtMostOnce ==
    \A i, j \in ExitEvents :
        i < j => /\ app.log[j].chain = 0
                 /\ app.tabs = <<>>

\* C36 witness: exit was invoked twice while tab 1 was asking the user; the
\* close asked for by the first chain was confirmed and exited, then the
\* close asked for by the second chain was confirmed and did not.
C36_Witness ==
    /\ app.calls = 2
    /\ Len(app.chains) = 2
    /\ app.pending = {}
    /\ app.exits = 1
    /\ \E i \in ExitEvents :
        /\ app.log[i].chain # 0
        /\ \E r \in 1..(i - 1), c \in (i + 1)..Len(app.log) :
            /\ app.log[r].ev = "request"
            /\ app.log[c].ev = "complete"
            /\ app.log[r].chain = app.log[c].chain
            /\ app.log[r].chain # app.log[i].chain


(***************************************************************************)
(* Properties of the dialog stack                                          *)
(***************************************************************************)

DialogEvent(kind, d) == [ev |-> kind, dlg |-> d]

\* Dialog a was opened, then dialog b, then b was closed, and nothing else
\* happened to the dialogs since a was opened.
OpenedThenClosedInside(a, b) ==
    /\ Len(dlog) >= 3
    /\ SubSeq(dlog, Len(dlog) - 2, Len(dlog)) =
            <<DialogEvent("open", a), DialogEvent("open", b), DialogEvent("close", b)>>

\* C3: open D1, open D2, close D2, close D1: the click that closes D1 gives the
\* focus back to the control that had it before D1 was opened (when that
\* control is still in the layout), not to the control that had it before D2
\* was opened when that one is a control of D1.
C3_FocusRestored ==
    [][\A a, b \in 1..Len(dialogs) :
        (/\ OpenedThenClosedInside(a, b)
         /\ dlog' = Append(dlog, DialogEvent("close", a))
         /\ dialogs[a].before \in FindAllControls(floats'))
        => /\ focus' = dialogs[a].before
           /\ dialogs[b].before.owner = a => focus' # dialogs[b].before]_vars

\* C3 witness: D1 and D2 were opened and closed in that order, D2 was opened
\* from a control of D1, and the focus is back where it was before D1.
C3_Witness ==
    /\ dlog = <<DialogEvent("open", 1), DialogEvent("open", 2),
                DialogEvent("close", 2), DialogEvent("close", 1)>>
    /\ dialogs[2].before.owner = 1
    /\ dialogs[1].before.owner = 0
    /\ focus = dialogs[1].before
    /\ floats = <<>>

\* The names of the steps a click took.
StepNames(click) == [i \in 1..Len(click.steps) |-> click.steps[i].step]

\* C28: a click on a button of dialog d removes d from the stack, then
\* attempts to restore the focus captured when d was opened, then calls the
\* button's callback if it has one, each once and in this order; the
\* callback finds d gone from the stack.
C28_ClickOrder ==
    [][\A d \in 1..Len(dialogs) :
        dialogs'[d].click # dialogs[d].click
        => LET click == dialogs'[d].click
               cb == dialogs[d].buttons[click.button]
               names == StepNames(click)
           IN  /\ Len(names) = IF cb = None THEN 2 ELSE 3
               /\ names[1] = "remove"
               /\ click.steps[1].seen = ListRemove(floats, d)
               /\ names[2] \in {"focus", "no_focus"}
               /\ cb # None => /\ names[3] = "cb"
                               /\ click.steps[3].seen.floats = ListRemove(floats, d)
                               /\ click.steps[3].seen.focus = click.steps[2].seen
               /\ cbRuns' = cbRuns + (IF cb = None THEN 0 ELSE 1)
               /\ d \notin Range(floats')]_vars

\* C28 witness: the OK button of an ask-file dialog was clicked; its callback
\* ran after the removal and the focus restoration and opened a dialog.
C28_Witness ==
    /\ Len(dialogs) = 2
    /\ StepNames(dialogs[1].click) = <<"remove", "focus", "cb">>
    /\ dialogs[1].click.steps[3].seen.floats = <<>>
    /\ floats = <<2>>
    /\ cbRuns = 1

\* C29: when the control captured at the opening of dialog d is no longer in
\* the layout at the click, the handler leaves the focus where it is, still
\* removes d from the stack and still calls the button's callback.
C29_MissingFocusSkipped ==
    [][\A d \in 1..Len(dialogs) :
        (/\ dialogs'[d].click # dialogs[d].click
         /\ dialogs[d].focused \notin FindAllControls(ListRemove(floats, d)))
        => LET click == dialogs'[d].click
               cb == dialogs[d].buttons[click.button]
           IN  /\ StepNames(click) = IF cb = None THEN <<"remove", "no_focus">>
                                     ELSE <<"remove", "no_focus", "cb">>
               /\ click.steps[2].seen = focus
               /\ d \notin Range(floats')
               /\ cbRuns' = cbRuns + (IF cb = None THEN 0 ELSE 1)]_vars

\* C29 witness: a dialog opened from a control of an ask-file dialog that has
\* since been closed was closed by its OK button, and its callback ran.
C29_Witness ==
    /\ Len(dialogs) = 2
    /\ dialogs[2].focused.owner = 1
    /\ StepNames(dialogs[2].click) = <<"remove", "no_focus", "cb">>
    /\ dialogs[1].click.steps # <<>>
    /\ floats = <<>>

RECURSIVE OpenAfter(_)

\* The dialogs shown, front first, after the first k events of dlog.
OpenAfter(k) ==
    IF k = 0 THEN <<>>
    ELSE IF dlog[k].ev = "open"
         THEN <<dlog[k].dlg>> \o OpenAfter(k - 1)
         ELSE ListRemove(OpenAfter(k - 1), dlog[k].dlg)

\* Every click so far was on a button of the dialog in front at that time.
ClosedInOrder ==
    \A k \in 1..Len(dlog) :
        dlog[k].ev = "close" => OpenAfter(k - 1)[1] = dlog[k].dlg

ActiveIsValid(sp) ==
    sp.active = NoIndex \/ (0 <= sp.active /\ sp.active < Len(sp.children))

\* C4: right after 'set active(i)' on a split that has children, the active
\* index is none or a valid position in [0, len(children)).
C4_ActiveInRange ==
    (split.op.step = "set_active" /\ Len(split.children) > 0) => ActiveIsValid(split)

\* C5: right after construction with children, the active index is the
\* requested one clamped into [0, len(children)), or none.
C5_InitialActiveClamped ==
    (split.op.step = "new" /\ split.kind # "none" /\ Len(split.children) > 0)
        => split.active = ClampActiveToLast(split.op.arg, split.children)

\* C6: 'set active(i)' on a split with children and a valid active index,
\* with i the current value, or a value that clamps into [0, len(children))
\* to the current value, or none when none is active, fires no notification,
\* does not re-render and does not try to move the focus: it leaves the split
\* and its tab bar as they are.
C6_SameValueIsNoOp ==
    [][\A i \in ActiveInputs :
        (/\ split'.op = Step("set_active", i)
         /\ Len(split.children) > 0
         /\ ActiveIsValid(split)
         /\ ClampActiveToLast(i, split.children) = split.active)
        => /\ split'.trace = <<>>
           /\ split'.err = NoError
           /\ split'.active = split.active
           /\ ctl' = ctl]_vars

\* C7: the split has as many children as titles.
C7_SameLength ==
    split.kind # "none" => Len(split.children) = Len(split.titles)

\* C21: when 'set active(i)' changes the active index of a split with
\* children to a value v that is not none, three steps happen in this order:
\* the render is refreshed with active = v (the tab bar of a TabbedSplit has
\* active = v), the notification fires once and sees v, and focus is
\* attempted on the child at v.
C21_SetActiveOrder ==
    [][\A i \in ActiveInputs :
        (/\ split'.op = Step("set_active", i)
         /\ split.kind # "none"
         /\ Len(split.children) > 0
         /\ split'.active # split.active
         /\ split'.active # NoIndex)
        => LET v == split'.active
               t == split'.trace
           IN  /\ Len(t) = 3
               /\ t[1] = Step("refresh", v)
               /\ t[2] = Step("fire", v)
               /\ t[3].step \in {"focus", "focus_failed"}
               /\ split.kind = "tabbed" => ctl'.active = v]_vars

\* C22: 'set active(i)' on a split with children never lets an error out,
\* whatever i is and whether or not the focus could be moved.
C22_FocusFailureSwallowed ==
    (split.op.step = "set_active" /\ Len(split.children) > 0) => split.err = NoError

\* C23: 'set children(list)' and 'set titles(list)' put the given list in
\* place of the old one and re-render from it, leave the other sequence and
\* the active index as they are, fire no notification and try no focus.
C23_SettersKeepActive ==
    [][split'.op.step \in {"set_children", "set_titles"}
        => /\ split'.active = split.active
           /\ split'.trace = <<Step("refresh", split.active)>>
           /\ split'.err = NoError
           /\ IF split'.op.step = "set_children"
              THEN split'.children \in ChildLists /\ split'.titles = split.titles
              ELSE split'.titles \in TitleLists /\ split'.children = split.children
           /\ IF split.kind = "tabbed"
              THEN /\ ctl'.tabs = LoadTabs(split')
                   /\ ctl'.cache = <<>>
                   /\ ctl'.active = IF split.active = NoIndex THEN ctl.active
                                    ELSE split.active
              ELSE split'.sections = DrawContainer(split')]_vars

\* C23 witness: the children of a split were replaced by a shorter list, and
\* the active index is now out of range.
C23_Witness ==
    /\ split.op.step = "set_children"
    /\ split.kind = "tabbed"
    /\ Len(split.children) = 1
    /\ Len(split.titles) = 2
    /\ split.active = 1
    /\ split.trace = <<Step("refresh", 1)>>

\* C24: when the children or the titles of a TabbedSplit that was in order
\* (as many titles as children, a valid active index) are replaced by a
\* shorter, non-empty list that leaves the active index out of range, the
\* re-render clamps it: the tab bar's active index is a position of its tabs
\* and the lookup of the active child gives a child.
C24_ShorterListClamps ==
    [][(/\ split.kind = "tabbed"
        /\ split'.op.step \in {"set_children", "set_titles"}
        /\ Len(split.children) = Len(split.titles)
        /\ ActiveIsValid(split)
        /\ split.active # NoIndex
        /\ Len(split'.children) > 0
        /\ Len(split'.titles) > 0
        /\ split.active >= Min(Len(split'.children), Len(split'.titles)))
        => /\ ActiveChild(split').err = NoError
           /\ 0 <= ctl'.active
           /\ ctl'.active < Len(ctl'.tabs)]_vars

TabActiveIsValid(c) == 0 <= c.active /\ c.active < Len(c.tabs)

\* The deactivate callback of tab k, if it has one.
DeactivateOf(c, k) ==
    IF c.tabs[k + 1].on_deactivate # NoCb THEN <<c.tabs[k + 1].on_deactivate>> ELSE <<>>

\* C8: a scroll-down with tab k active invokes, for k < N - 1, the deactivate
\* callback of tab k (if any) and then the activate callback of tab k + 1; for
\* k = N - 1 it invokes nothing, raises nothing and leaves the active index.
C8_ScrollDown ==
    [][(mouse'.type = "SCROLL_DOWN" /\ TabActiveIsValid(ctl))
        => /\ mouse'.err = NoError
           /\ IF ctl.active < Len(ctl.tabs) - 1
              THEN mouse'.calls = DeactivateOf(ctl, ctl.active)
                                    \o <<ctl.tabs[ctl.active + 2].on_activate>>
              ELSE mouse'.calls = <<>> /\ ctl'.active = ctl.active]_vars

\* C9: a scroll-up with tab k active invokes, for k > 0, the deactivate
\* callback of tab k (if any) and then the activate callback of tab k - 1; for
\* k = 0 it invokes nothing and returns NotImplemented.
C9_ScrollUp ==
    [][(mouse'.type = "SCROLL_UP" /\ TabActiveIsValid(ctl))
        => /\ mouse'.err = NoError
           /\ IF ctl.active > 0
              THEN /\ mouse'.calls = DeactivateOf(ctl, ctl.active)
                                        \o <<ctl.tabs[ctl.active].on_activate>>
                   /\ mouse'.result = None
                   /\ ctl'.active = ctl.active - 1
              ELSE /\ mouse'.calls = <<>>
                   /\ mouse'.result = "NotImplemented"
                   /\ ctl' = ctl]_vars

\* C9 witness: a scroll-up from tab 1 has deactivated tab 1 and then
\* activated tab 0.
C9_Witness ==
    /\ mouse.type = "SCROLL_UP"
    /\ mouse.calls = <<Cb("deactivate", 1), Cb("activate", 0)>>
    /\ mouse.result = None
    /\ ctl.active = 0

\* C10: every mouse event that changes the active index invokes the
\* deactivate callback of the tab that was active (if it has one) and then
\* the activate callback of the tab that is active now.
C10_DeactivateThenActivate ==
    [][(mouse'.type \in {"MOUSE_UP", "SCROLL_UP", "SCROLL_DOWN"}
            /\ TabActiveIsValid(ctl) /\ TabActiveIsValid(ctl')
            /\ ctl'.active # ctl.active)
        => mouse'.calls = DeactivateOf(ctl, ctl.active)
                            \o <<ctl.tabs[ctl'.active + 1].on_activate>>]_vars

(***************************************************************************)
(* Properties of TabControl.render                                         *)
(***************************************************************************)

\* C11: the second line of every render(width) kept by the tab bar has a
\* glyph width of exactly width.
C11_TabLineFillsWidth ==
    \A k \in 1..Len(ctl.cache) :
        Len(ctl.cache[k].content.line) = ctl.cache[k].key.width

\* The tab whose left border, title or right border is painted at column col
\* of the tab-label row, or NoIndex when the column shows filler.
TabAtColumn(line, col) ==
    IF col + 1 \in DOMAIN line /\ line[col + 1].g \in {"left", "title", "right"}
    THEN Cardinality({k \in 1..(col + 1) : line[k].g = "left"}) - 1
    ELSE NoIndex

\* The tab bar of the split shows a paint of its present tabs.
BarIsPainted == ContentKey(ctl, MaxWidth) \in CacheKeys(ctl)

\* C12: once the tab bar of a TabbedSplit with as many titles as children and
\* a valid active index is painted, a mouse-up on row 1 at a
\* column under tab j calls one callback and leaves the split and its bar as
\* 'set active(j)' does; a mouse-up at a column under filler calls nothing.
C12_ClickIsSetActive ==
    [][(/\ split.kind = "tabbed"
        /\ Len(split.children) = Len(split.titles)
        /\ ActiveIsValid(split)
        /\ BarIsPainted
        /\ split'.op.step = "mouse"
        /\ mouse'.type = "MOUSE_UP"
        /\ mouse'.row = 1)
        => LET j == TabAtColumn(PaintedContent(ctl, MaxWidth).line, split'.op.arg)
               start == [Widgets EXCEPT !.split.trace = <<>>, !.split.err = NoError]
               after == SetActiveTo(start, j)
           IN  IF j = NoIndex
               THEN mouse'.calls = <<>> /\ split'.active = split.active /\ ctl' = ctl
               ELSE /\ mouse'.calls = <<Cb("set_active", j)>>
                    /\ split'.active = after.split.active
                    /\ split'.trace = after.split.trace
                    /\ split'.err = after.split.err
                    /\ ctl' = after.ctl]_vars

\* C25: right after a paint of the tab bar of a TabbedSplit, the hit-map has
\* an entry for a column only if the column lies under a tab of that paint,
\* and the entry is that tab's callback.
C25_HitMapIsCurrent ==
    (split.kind = "tabbed" /\ split.op.step = "paint" /\ BarIsPainted)
        => \A col \in DOMAIN ctl.mouse_handlers :
              LET j == TabAtColumn(PaintedContent(ctl, MaxWidth).line, col)
              IN  /\ j # NoIndex
                  /\ ctl.mouse_handlers[col] = ctl.tabs[j + 1].on_activate

\* The column of the left border of tab j (counted from 0) of a tab bar: the
\* initial spacing, then the spans of the tabs before it and their spacing.
RECURSIVE SpanStart(_, _)
SpanStart(c, j) ==
    IF j = 0 THEN c.spacing
    ELSE SpanStart(c, j - 1) + c.tabs[j].title + (IF c.closeable THEN 4 ELSE 2) + c.spacing

\* C26: once a closeable tab bar has been rendered, for every tab j the
\* column of its close glyph maps to its close callback, and the other
\* columns of its span (left border, title, separator, right border) map to
\* its activate callback.
C26_CloseColumn ==
    (split.kind = "none" /\ ctl.closeable /\ ctl.cache # <<>>)
        => \A j \in 0..(Len(ctl.tabs) - 1) :
              LET tab == ctl.tabs[j + 1]
                  start == SpanStart(ctl, j)
                  close == start + tab.title + 2
              IN  \A col \in start..(close + 1) :
                      /\ col \in DOMAIN ctl.mouse_handlers
                      /\ ctl.mouse_handlers[col] =
                            IF col = close THEN tab.on_close ELSE tab.on_activate

\* C26 witness: a closeable bar of two tabs with close callbacks was
\* rendered, and the close glyph of the second tab has its handler.
C26_Witness ==
    /\ split.kind = "none"
    /\ ctl.closeable
    /\ ctl.cache # <<>>
    /\ Len(ctl.tabs) = 2
    /\ ctl.tabs[2].on_close = Cb("close", 1)
    /\ SpanStart(ctl, 1) + ctl.tabs[2].title + 2 \in DOMAIN ctl.mouse_handlers
    /\ ctl.mouse_handlers[SpanStart(ctl, 1) + ctl.tabs[2].title + 2] = Cb("close", 1)

\* C27: whatever the owner did to the tabs, the spacing, the closeable flag
\* and the active index of a tab bar, a paint at any width returns what
\* render(width) produces for the bar as it now is.
C27_ContentIsRender ==
    split.kind = "none"
        => \A width \in PaintWidths :
              PaintedContent(ctl, width)
                 = [top |-> Render(ctl, width).top, line |-> Render(ctl, width).line]

(***************************************************************************)
(* Properties of AccordionSplit.toggle                                     *)
(***************************************************************************)

\* C13: toggle(i) on section i of an AccordionSplit collapses it when it is the
\* active section (active becomes none) and otherwise makes i the active
\* index, whatever was active before; it raises nothing.
C13_Toggle ==
    [][\A i \in 0..(MaxChildren - 1) :
        split'.op = Step("toggle", i)
        => /\ split'.active = IF split.active = i THEN NoIndex ELSE i
           /\ split'.err = NoError]_vars

\* C13 witness: with two sections, toggle(1) has opened section 1 and so
\* closed the one that was open.
C13_Witness ==
    /\ split.kind = "accordion"
    /\ Len(split.sections) = 2
    /\ split.op = Step("toggle", 1)
    /\ split.active = 1
    /\ split.trace # <<>>

\* The sections of an AccordionSplit whose ConditionalContainer shows its
\* child now: the filter of section index is self.active == index.
Expanded(sp) ==
    {index \in 0..(Len(sp.sections) - 1) : sp.active = index}

\* C34: in every state of an AccordionSplit the expanded sections are exactly
\* the one at the active index; none is expanded if and only if active is
\* none.
C34_ActiveSectionExpanded ==
    split.kind = "accordion"
        => Expanded(split) = IF split.active = NoIndex THEN {} ELSE {split.active}

(***************************************************************************)
(* Properties of CellOutputArea and CellOutput                             *)
(***************************************************************************)

\* C14: when the JSON list of a CellOutputArea is replaced, every position
\* below both the old and the new length keeps its CellOutput instance, now
\* holding the new record of that position, and every position at or beyond
\* the old length holds a CellOutput constructed by this assignment.
C14_ReconcileByPosition ==
    [][cells'.op.name = "area_json"
        => /\ Len(cells'.rendered) = Len(cells'.json)
           /\ \A i \in 1..Len(cells'.json) :
                /\ cells'.rendered[i].json = cells'.json[i]
                /\ IF i <= Len(cells.rendered)
                   THEN cells'.rendered[i].id = cells.rendered[i].id
                   ELSE /\ cells'.rendered[i].id > cells.objects
                        /\ \A j \in 1..Len(cells'.json) :
                            j # i => cells'.rendered[j].id # cells'.rendered[i].id]_vars

\* C14 witness: a list of two records has replaced a list of one; position 1
\* kept its instance, which was given another record, and position 2 holds
\* a new one.
C14_Witness ==
    /\ cells.op.name = "area_json"
    /\ Len(cells.rendered) = 2
    /\ cells.rendered[1].id = 1
    /\ cells.rendered[2].id = 2
    /\ cells.objects = 2
    /\ cells.made = 3
    /\ cells.err = NoError
    /\ cells.rendered[1].json.output_type = "display_data"
    /\ cells.rendered[2].json.output_type = "stream"

\* The CellOutput instances constructed so far that the area no longer holds.
Dropped(c) ==
    (1..c.objects) \ {c.rendered[i].id : i \in 1..Len(c.rendered)}

\* C38: after every assignment of a JSON list to a CellOutputArea, growing,
\* shrinking or reordering, there are as many CellOutput instances as
\* records, the instance at position i holds record i, no instance is at two
\* positions, and no instance dropped by an earlier shrink is among them.
C38_InstancesFollowList ==
    [][cells'.op.name = "area_json"
        => /\ Len(cells'.rendered) = Len(cells'.json)
           /\ \A i \in 1..Len(cells'.rendered) :
                /\ cells'.rendered[i].json = cells'.json[i]
                /\ cells'.rendered[i].id \notin Dropped(cells)
                /\ \A j \in 1..(i - 1) : cells'.rendered[j].id # cells'.rendered[i].id]_vars

\* C38 witness: the list shrank from two records to one and grew to two
\* again; the second instance was dropped and the regrown position holds a
\* third one.
C38_Witness ==
    /\ cells.op.name = "area_json"
    /\ cells.objects = 3
    /\ Len(cells.rendered) = 2
    /\ cells.rendered[1].id = 1
    /\ cells.rendered[2].id = 3
    /\ Dropped(cells) = {2}
    /\ cells.err = NoError

\* The rank was asked for a text/plain payload with an escape marker, and is
\* now asked for a text/plain payload without one.
AnsiThenPlain ==
    /\ cells.rank.mime = TextPlain /\ cells.rank.data.ansi
    /\ cells'.rank.mime = TextPlain /\ ~cells'.rank.data.ansi

\* C15 as stated: the rank of a text/plain payload without an ANSI escape
\* marker is 3 positions higher than the rank of one with the marker.
C15_AnsiThreeBetter ==
    [][AnsiThenPlain => cells'.rank.result = cells.rank.result + 3]_vars

\* C15, amended: the rank of a text/plain payload without an ANSI escape
\* marker is 2 positions higher than the rank of one with the marker.
C15_AnsiTwoBetter ==
    [][AnsiThenPlain => cells'.rank.result = cells.rank.result + 2]_vars

\* C15 witness: text/plain without the marker was ranked 9, at the position
\* of the pattern text/*.
C15_Witness ==
    /\ cells.op.name = "rank"
    /\ cells.rank = RankCall(TextPlain, Plain, 9)

\* C16: taking the container of a CellOutput never fails and gives a
\* renderer, whatever the output record is: neither output.container nor the
\* assignment of the area's JSON, which takes the container of every output,
\* raises.
C16_ContainerNeverFails ==
    /\ cells.op.name \in {"new", "area_json", "container"} => cells.err = NoError
    /\ cells.op.name = "container" => cells.op.element.id > 0

\* The MIME type is one of the best ranked of the record's data.
IsDefaultMime(mime, json) ==
    LET data == OutputData(json)
    IN  /\ mime \in Keys(data)
        /\ \A k \in 1..Len(data) :
            CalculateMimeRank(mime, data[DictGet(data, mime)].data)
                <= CalculateMimeRank(data[k].mime, data[k].data)

\* C19: right after output.json is assigned the output has no cached
\* renderer, and its selected MIME type is the best ranked type of the new
\* record (if it has any); taking its container next constructs a renderer
\* for that type that did not exist before.  The same holds of every output
\* that the assignment of the area's JSON list goes through.
C19_JsonInvalidatesRenderers ==
    [][/\ cells'.op.name = "json"
          => LET out == cells'.rendered[cells'.op.at]
             IN  /\ out.containers = <<>>
                 /\ OutputData(out.json) # <<>>
                      => /\ SelectedMime(out).err = NoError
                         /\ IsDefaultMime(SelectedMime(out).value, out.json)
       /\ (cells.op.name = "json" /\ cells'.op.name = "container"
              /\ cells'.op.at = cells.op.at /\ cells'.err = NoError)
          => /\ cells'.made = cells.made + 1
             /\ cells'.op.element.id = cells'.made
             /\ IsDefaultMime(cells'.op.element.mime, cells.rendered[cells.op.at].json)
       /\ (cells'.op.name = "area_json" /\ cells'.err = NoError)
          => \A i \in 1..Len(cells'.rendered) :
                /\ Len(cells'.rendered[i].containers) = 1
                /\ cells'.rendered[i].containers[1].data.id > cells.made]_vars

\* C19 witness: an output that showed a stream was given a record with two
\* MIME types, and its container was taken: a second renderer was made, for
\* the widget view.
C19_Witness ==
    /\ cells.op.name = "container"
    /\ cells.err = NoError
    /\ Len(cells.rendered) = 1
    /\ cells.json[1].output_type = "stream"
    /\ cells.rendered[1].json.output_type = "display_data"
    /\ cells.made = 2
    /\ cells.op.element.id = 2
    /\ cells.op.element.mime = WidgetView

\* C20: taking the container of an output whose selected MIME type has a
\* cached renderer gives that very renderer and constructs nothing; a
\* renderer is constructed only when the type has none, and is then cached;
\* so an output never holds two renderers for one MIME type.
C20_OneRendererPerMime ==
    [][(cells'.op.name = "container" /\ cells'.err = NoError)
        => LET k == cells'.op.at
               out == cells.rendered[k]
               mime == SelectedMime(out).value
           IN  /\ cells'.op.element.mime = mime
               /\ Cardinality(Keys(cells'.rendered[k].containers))
                     = Len(cells'.rendered[k].containers)
               /\ IF mime \in Keys(out.containers)
                  THEN /\ cells'.op.element = out.containers[DictGet(out.containers, mime)].data
                       /\ cells'.made = cells.made
                       /\ cells'.rendered[k] = out
                  ELSE /\ cells'.made = cells.made + 1
                       /\ cells'.op.element.id = cells'.made
                       /\ cells'.rendered[k].containers
                             = Append(out.containers, Item(mime, cells'.op.element))]_vars

\* C20 witness: the container of an output was taken again and gave the one
\* renderer made so far.
C20_Witness ==
    /\ cells.op.name = "container"
    /\ cells.err = NoError
    /\ cells.made = 1
    /\ cells.op.element.id = 1
    /\ cells.rendered[cells.op.at].containers
          = <<Item(cells.op.element.mime, cells.op.element)>>

\* The rank of an entry of a data mapping.
RankOf(item) == CalculateMimeRank(item.mime, item.data)

\* The position of the key mime in the mapping d.
PositionOf(d, mime) == CHOOSE k \in 1..Len(d) : d[k].mime = mime

\* C30: CellOutput.data holds the entries of the record's data mapping in
\* ascending order of rank, entries of equal rank in the order of the record;
\* the selected MIME type is the first key of it: one of lowest rank and,
\* among those, the one that comes first in the record.
C30_DataSortedStable ==
    cells.op.name = "data"
        => LET raw == cells.look.json.data
               data == cells.look.data
           IN  /\ Len(data) = Len(raw)
               /\ Range(data) = Range(raw)
               /\ \A i, j \in 1..Len(data) :
                     i < j => \/ RankOf(data[i]) < RankOf(data[j])
                              \/ /\ RankOf(data[i]) = RankOf(data[j])
                                 /\ PositionOf(raw, data[i].mime)
                                       < PositionOf(raw, data[j].mime)
               /\ raw # <<>>
                  => /\ cells.look.selected = Returned(data[1].mime)
                     /\ \A k \in 1..Len(raw) :
                           \/ RankOf(data[1]) < RankOf(raw[k])
                           \/ /\ RankOf(data[1]) = RankOf(raw[k])
                              /\ PositionOf(raw, data[1].mime) <= k

\* C30 witness: a record with HTML without a tag after a type that only "*"
\* matches, both of rank 10, and an image after them: the image comes first
\* and is selected, the two others keep their order.
C30_Witness ==
    /\ cells.op.name = "data"
    /\ cells.look.json.data
          = <<Item(AppJson, Plain), Item(TextHtml, Plain), Item(ImagePng, Plain)>>
    /\ cells.look.data
          = <<Item(ImagePng, Plain), Item(AppJson, Plain), Item(TextHtml, Plain)>>
    /\ cells.look.selected = Returned(ImagePng)
    /\ RankOf(Item(AppJson, Plain)) = RankOf(Item(TextHtml, Plain))

\* The index (from 0) of the first pattern of MIME_ORDER that mime matches.
FirstMatch(mime) ==
    CHOOSE i \in 0..(Len(MIME_ORDER) - 1) :
        /\ PathMatch(mime, MIME_ORDER[i + 1])
        /\ \A k \in 0..(i - 1) : ~PathMatch(mime, MIME_ORDER[k + 1])

\* C31: the rank of text/plain with an escape marker is the index of its
\* first matching pattern less 2, the rank of text/html without a tag opener
\* is that index plus 2, and every other type and payload ranks at the index
\* of its first matching pattern.
C31_RankAdjustments ==
    cells.op.name = "rank"
        => LET mime == cells.rank.mime
               data == cells.rank.data
           IN  cells.rank.result =
                  IF mime = TextPlain /\ data.ansi THEN FirstMatch(mime) - 2
                  ELSE IF mime = TextHtml /\ ~data.tag THEN FirstMatch(mime) + 2
                  ELSE FirstMatch(mime)

\* C31 witness: text/html without a tag opener was ranked 10, two after the
\* position of the pattern text/html.
C31_Witness ==
    /\ cells.op.name = "rank"
    /\ cells.rank.mime = TextHtml
    /\ ~cells.rank.data.tag
    /\ FirstMatch(TextHtml) = 8
    /\ cells.rank.result = 10

\* C32: when the JSON list of the area is replaced and the record at a
\* position is the one its output already holds, the renderer cached for that
\* position stays: the output keeps its renderers, the area shows the same
\* renderer there, and none is constructed for it.
C32_UnchangedKeepsRenderer ==
    [][(cells'.op.name = "area_json" /\ cells'.err = NoError)
        => \A i \in 1..Min(Len(cells.rendered), Len(cells'.json)) :
              (/\ cells'.json[i] = cells.rendered[i].json
               /\ cells.rendered[i].containers # <<>>)
              => /\ cells'.rendered[i].containers = cells.rendered[i].containers
                 /\ cells'.children[i] = cells.rendered[i].containers[1].data]_vars

(***************************************************************************)
(* Properties of ReferencedSplit                                           *)
(***************************************************************************)
\* C33: the children of the container a ReferencedSplit wraps are, one to
\* one and in order, the containers of the items the list it was given holds
\* now, also after the list was changed in place.
C33_ContainerFollowsList ==
    refsplit.container = RefChildren(refsplit)

(***************************************************************************)
(* Properties of TuiApp.tab_op                                             *)
(***************************************************************************)

\* C17: tab_op(operation) with no tab given does nothing and raises nothing
\* when no tab is focused, when the focused tab has no attribute of that
\* name, or when the attribute is not callable; otherwise it calls the
\* operation of the focused tab once, with the arguments given.
C17_TabOpOnFocusedTab ==
    [][(shell'.op.operation # None /\ shell'.op.tab = NoTab)
        => /\ shell'.err = NoError
           /\ shell'.focused = shell.focused
           /\ shell'.attrs = shell.attrs
           /\ IF shell.focused # NoTab
                 /\ shell.attrs[shell.focused][shell'.op.operation] = "method"
              THEN shell'.calls =
                      << [tab |-> shell.focused, operation |-> shell'.op.operation,
                          args |-> IF shell'.op.args = None THEN "[]"
                                   ELSE shell'.op.args] >>
              ELSE shell'.calls = <<>>]_vars

\* C17 witness: tab_op("save", args=[1]) has called save(1) on the focused tab.
C17_Witness ==
    /\ shell.op = TabOpRequest("save", NoTab, "[1]")
    /\ shell.focused = 1
    /\ shell.calls = << [tab |-> 1, operation |-> "save", args |-> "[1]"] >>

\* C35: tab_op(operation, tab=T) with a tab given looks the operation up on
\* T and calls it on T, once and with the arguments given, whatever tab is
\* focused; it does nothing when T lacks the operation or it is not
\* callable, and it raises nothing.
C35_TabOpOnGivenTab ==
    [][(shell'.op.operation # None /\ shell'.op.tab # NoTab)
        => /\ shell'.err = NoError
           /\ IF shell.attrs[shell'.op.tab][shell'.op.operation] = "method"
              THEN shell'.calls =
                      << [tab |-> shell'.op.tab, operation |-> shell'.op.operation,
                          args |-> IF shell'.op.args = None THEN "[]"
                                   ELSE shell'.op.args] >>
              ELSE shell'.calls = <<>>]_vars

(***************************************************************************)
(* Properties of PreviewApp.load_output                                    *)
(***************************************************************************)

\* C18: when paging is off and the configured output file cannot be opened,
\* whatever the failure, load_output logs the error, writes to standard
\* output and raises nothing.
C18_OpenFailureFallsBack ==
    (preview.runs = 1 /\ ~preview.cfg.page /\ preview.opened \notin {None, "opened"})
        => /\ preview.out.err = NoError
           /\ preview.out.file = "stdout"
           /\ preview.out.logged # <<>>

====
